---------------------------- MODULE Spec2Model ----------------------------
(***************************************************************************)
(* A model of vulkano's shader module layer (vulkano/src/shader/mod.rs):   *)
(* creation and specialization of a ShaderModule, entry-point lookup,      *)
(* ownership of the module objects, the merging of                         *)
(* DescriptorBindingRequirements and the matching of shader interfaces;    *)
(* of private data slots (vulkano/src/device/private_data.rs); and of the  *)
(* frame system of the deferred-rendering example                          *)
(* (examples/src/bin/deferred/frame/system.rs).                            *)
(* Each of these has a specification of its own over the one list of       *)
(* variables; a specification leaves the variables of the others at None.  *)
(*                                                                         *)
(* Rust's Option<T> is modelled as a sequence of length at most one:       *)
(* None is << >> and Some(x) is << x >>.                                   *)
(***************************************************************************)
EXTENDS Integers, Sequences, FiniteSets, TLC

VARIABLES
    base,          \* the base ShaderModule (behind its Arc)
    module,        \* Option of the SpecializedShaderModule the last call returned
    spec_result,   \* outcome of the last specialize call
    reqs,          \* three DescriptorBindingRequirements objects
    orig,          \* the objects as they were constructed
    calls,         \* the merge calls made so far, << self, other >> each
    last,          \* the arguments and the outcome of the last merge call
    upstream,      \* the ShaderInterface of the earlier stage
    downstream,    \* the ShaderInterface of the later stage
    matched,       \* Option of the last matches call: its arguments and result
    found,         \* Option of the last entry-point lookup: its arguments and result
    arcs,          \* strong counts of the Arcs and the destroy_shader_module calls made
    held,          \* what the program holds: Arcs of either module kind and EntryPoints
    threads,       \* per thread: position in specialize, its arguments, locals and result
    base_at_start, \* the base module as it was before any thread ran
    creation,      \* one ShaderModule::new call: its arguments, position, steps taken and result
    private_data,  \* the driver side: the value stored for each << slot, object >>
    set_calls,     \* the set_private_data calls made so far and how each ended
    got,           \* Option of the last get_private_data call: its arguments, the
                   \* number of set calls made before it, and what it returned
    system,        \* the FrameSystem: its three intermediate images and its allocator
    frame,         \* Option of the Frame that borrows the FrameSystem
    returned,      \* what each next_pass call on the Frame returned, in call order
    log,           \* the builder and future calls made for the Frame, in call order
    panicked,      \* TRUE once a call has panicked
    overflow_checks, \* TRUE when the build checks integer overflow
    frames         \* number of frame() calls made

specializeVars == << base, module, spec_result >>
mergeVars == << reqs, orig, calls, last >>
matchesVars == << upstream, downstream, matched >>
lookupVars == << found >>
lifetimeVars == << arcs, held >>
concurrentVars == << threads, base_at_start >>
creationVars == << creation >>
privateDataVars == << private_data, set_calls, got >>
frameVars == << system, frame, returned, log, panicked, overflow_checks, frames >>

vars == << specializeVars, mergeVars, matchesVars, lookupVars, lifetimeVars, concurrentVars, creationVars, privateDataVars, frameVars >>

None == << >>
Some(x) == << x >>
IsSome(o) == Len(o) = 1
Unwrap(o) == o[1]


(***************************************************************************)
(* SpecializationConstant                                                  *)
(***************************************************************************)

\* A value is [variant, value]; a float's value is its bit pattern and a
\* Bool's value is the VkBool32 it expands to.
SpecializationConstant(variant, value) == [variant |-> variant, value |-> value]

\* Number of bytes of as_bytes for each variant (Bool expands to a VkBool32).
SizeOfVariant(variant) ==
    CASE variant = "Bool" -> 4
      [] variant \in {"U8", "I8"} -> 1
      [] variant \in {"U16", "I16", "F16"} -> 2
      [] variant \in {"U32", "I32", "F32"} -> 4
      [] variant \in {"U64", "I64", "F64"} -> 8

\* bytes_of on a little-endian host: the n low bytes of v, two's complement.
RECURSIVE bytes_of(_, _)
bytes_of(v, n) ==
    IF n = 0 THEN << >> ELSE << v % 256 >> \o bytes_of(v \div 256, n - 1)

VK_FALSE == 0
VK_TRUE == 1

as_bytes(c) ==
    IF c.variant = "Bool"
    THEN (IF c.value = VK_TRUE THEN bytes_of(VK_TRUE, 4) ELSE bytes_of(VK_FALSE, 4))
    ELSE bytes_of(c.value, SizeOfVariant(c.variant))

\* Faulty variant of eq_type: equal size taken for equal type.
eq_type_by_size(a, b) == SizeOfVariant(a.variant) = SizeOfVariant(b.variant)

\* discriminant(self) == discriminant(other)
eq_type(a, b) == a.variant = b.variant

(***************************************************************************)
(* The instruction graph (Spirv).  Only what specialization and reflection *)
(* read is kept: the constant-defining instructions, each with its         *)
(* optional constant_id decoration, declared type and literal bytes, and   *)
(* the entry points, each naming the constant that sizes its descriptor    *)
(* array.                                                                  *)
(***************************************************************************)

RECURSIVE from_bytes_unsigned(_)
from_bytes_unsigned(bytes) ==
    IF bytes = << >> THEN 0
    ELSE Head(bytes) + 256 * from_bytes_unsigned(Tail(bytes))

RECURSIVE from_bytes_signed(_)
from_bytes_signed(bytes) ==
    IF Len(bytes) = 1
    THEN (IF bytes[1] >= 128 THEN bytes[1] - 256 ELSE bytes[1])
    ELSE Head(bytes) + 256 * from_bytes_signed(Tail(bytes))

\* The declared type decides how the literal bytes are read.
DecodeLiteral(ty, literal) ==
    CASE ty = "Bool" ->
            SpecializationConstant(ty, IF from_bytes_unsigned(literal) # VK_FALSE
                                       THEN VK_TRUE ELSE VK_FALSE)
      [] ty \in {"I8", "I16", "I32", "I64"} ->
            SpecializationConstant(ty, from_bytes_signed(literal))
      [] OTHER -> SpecializationConstant(ty, from_bytes_unsigned(literal))

ConstantInstruction(result_id, constant_id, c) ==
    [result_id |-> result_id, constant_id |-> constant_id,
     ty |-> c.variant, literal |-> as_bytes(c)]

EntryPointInstruction(id, name, execution_model, array_len) ==
    [id |-> id, name |-> name, execution_model |-> execution_model,
     array_len |-> array_len]

\* reflect::specialization_constants
reflect_specialization_constants(spirv) ==
    LET decorated == {i \in DOMAIN spirv.constants :
                        IsSome(spirv.constants[i].constant_id)}
        ids == {Unwrap(spirv.constants[i].constant_id) : i \in decorated}
        at(id) == CHOOSE i \in decorated : Unwrap(spirv.constants[i].constant_id) = id
    IN [id \in ids |->
          DecodeLiteral(spirv.constants[at(id)].ty, spirv.constants[at(id)].literal)]

\* Spirv::apply_specialization
apply_specialization(spirv, specialization_info) ==
    [spirv EXCEPT !.constants =
        [i \in DOMAIN spirv.constants |->
            LET inst == spirv.constants[i]
            IN IF IsSome(inst.constant_id)
                  /\ Unwrap(inst.constant_id) \in DOMAIN specialization_info
               THEN [inst EXCEPT !.literal =
                        as_bytes(specialization_info[Unwrap(inst.constant_id)])]
               ELSE inst]]

\* reflect::entry_points
reflect_entry_points(spirv) ==
    [i \in DOMAIN spirv.entry_points |->
        LET ep == spirv.entry_points[i]
            len == IF IsSome(ep.array_len)
                   THEN LET k == CHOOSE k \in DOMAIN spirv.constants :
                                   spirv.constants[k].result_id = Unwrap(ep.array_len)
                        IN Some(from_bytes_unsigned(spirv.constants[k].literal))
                   ELSE Some(1)
        IN << ep.id,
              [name |-> ep.name, execution_model |-> ep.execution_model,
               descriptor_count |-> len] >>]

(***************************************************************************)
(* ShaderModule                                                            *)
(***************************************************************************)

\* ShaderModule::from_handle_with_spirv
from_handle_with_spirv(spirv) ==
    [spirv |-> spirv,
     specialization_constants |-> reflect_specialization_constants(spirv)]

(***************************************************************************)
(* SpecializedShaderModule                                                 *)
(***************************************************************************)

\* The outcome of a specialize call: Ok, or the validation error, which
\* names the constant_id whose type does not match.
SpecOk == [status |-> "Ok", constant_id |-> None]
SpecErr(constant_id) == [status |-> "Err", constant_id |-> Some(constant_id)]

\* SpecializedShaderModule::validate_new.  The map is iterated in an
\* unspecified order, so the constant_id reported is any offending one.
SpecializedShaderModule_validate_new(base_module, specialization_info) ==
    LET bad == {constant_id \in DOMAIN specialization_info :
                  /\ constant_id \in DOMAIN base_module.specialization_constants
                  /\ ~eq_type(specialization_info[constant_id],
                              base_module.specialization_constants[constant_id])}
    IN IF bad = {} THEN {SpecOk} ELSE {SpecErr(constant_id) : constant_id \in bad}

\* Faulty variant of new_unchecked: the base module's graph is specialized
\* without being cloned first.
new_unchecked_in_place(base_module, specialization_info) ==
    LET specialized == apply_specialization(base_module.spirv, specialization_info)
        derived == DOMAIN base_module.specialization_constants # {}
    IN [base_module |-> IF derived
                        THEN [base_module EXCEPT !.spirv = specialized]
                        ELSE base_module,
        module |-> [specialization_info |-> specialization_info,
                    spirv |-> IF derived THEN Some(specialized) ELSE None,
                    entry_point_infos |->
                        reflect_entry_points(IF derived THEN specialized
                                             ELSE base_module.spirv)]]

\* Variant of new_unchecked that clones only when an override names a
\* constant of the base module.
new_unchecked_lazy_clone(base_module, specialization_info) ==
    LET effective == (DOMAIN specialization_info)
                        \cap (DOMAIN base_module.specialization_constants) # {}
        spirv == IF effective
                 THEN Some(apply_specialization(base_module.spirv, specialization_info))
                 ELSE None
    IN [base_module |-> base_module,
        module |-> [specialization_info |-> specialization_info,
                    spirv |-> spirv,
                    entry_point_infos |->
                        reflect_entry_points(IF IsSome(spirv) THEN Unwrap(spirv)
                                             ELSE base_module.spirv)]]

\* Faulty variant of new_unchecked: entry points are reflected from the
\* derived graph only, with no fallback to the base module's graph.
new_unchecked_no_fallback(base_module, specialization_info) ==
    LET spirv == IF DOMAIN base_module.specialization_constants # {}
                 THEN Some(apply_specialization(base_module.spirv, specialization_info))
                 ELSE None
    IN [base_module |-> base_module,
        module |-> [specialization_info |-> specialization_info,
                    spirv |-> spirv,
                    entry_point_infos |->
                        IF IsSome(spirv) THEN reflect_entry_points(Unwrap(spirv))
                        ELSE << >>]]

\* SpecializedShaderModule::new_unchecked.  Returns the new module and the
\* base module as the call leaves it (only a clone of its graph is written).
SpecializedShaderModule_new_unchecked(base_module, specialization_info) ==
    LET spirv == IF DOMAIN base_module.specialization_constants # {}
                 THEN Some(apply_specialization(base_module.spirv, specialization_info))
                 ELSE None
    IN [base_module |-> base_module,
        module |-> [specialization_info |-> specialization_info,
                    spirv |-> spirv,
                    entry_point_infos |->
                        reflect_entry_points(IF IsSome(spirv) THEN Unwrap(spirv)
                                             ELSE base_module.spirv)]]

\* SpecializedShaderModule::spirv
SpecializedShaderModule_spirv(base_module, m) ==
    IF IsSome(m.spirv) THEN Unwrap(m.spirv) ELSE base_module.spirv


\* SpecializedShaderModule::new: validate, then build.  The outcomes are a
\* set because the error names whichever offending entry is met first.
SpecializedShaderModule_new(base_module, specialization_info) ==
    {IF r = SpecOk
     THEN LET n == SpecializedShaderModule_new_unchecked(base_module, specialization_info)
          IN [result |-> r, base_module |-> n.base_module, module |-> Some(n.module)]
     ELSE [result |-> r, base_module |-> base_module, module |-> None]
     : r \in SpecializedShaderModule_validate_new(base_module, specialization_info)}

\* ShaderModule::specialize
specialize(base_module, specialization_info) ==
    SpecializedShaderModule_new(base_module, specialization_info)

(***************************************************************************)
(* DescriptorRequirements and DescriptorBindingRequirements.               *)
(* ShaderStages is a set of stage names; descriptor_types is a Vec, kept   *)
(* as a sequence; the per-index map is a function on Option<u32> keys.     *)
(***************************************************************************)

DescriptorIdentifier(set, binding, index) ==
    [set |-> set, binding |-> binding, index |-> index]

\* DescriptorRequirements::default
DescriptorRequirements_default ==
    [memory_read |-> {}, memory_write |-> {},
     sampler_compare |-> FALSE,
     sampler_no_unnormalized_coordinates |-> FALSE,
     sampler_no_ycbcr_conversion |-> FALSE,
     sampler_with_images |-> {},
     storage_image_atomic |-> FALSE]

\* DescriptorRequirements::merge
DescriptorRequirements_merge(self, other) ==
    [memory_read |-> self.memory_read \cup other.memory_read,
     memory_write |-> self.memory_write \cup other.memory_write,
     sampler_compare |-> self.sampler_compare \/ other.sampler_compare,
     sampler_no_unnormalized_coordinates |->
        self.sampler_no_unnormalized_coordinates
            \/ other.sampler_no_unnormalized_coordinates,
     sampler_no_ycbcr_conversion |->
        self.sampler_no_ycbcr_conversion \/ other.sampler_no_ycbcr_conversion,
     sampler_with_images |-> self.sampler_with_images \cup other.sampler_with_images,
     storage_image_atomic |-> self.storage_image_atomic \/ other.storage_image_atomic]

\* Vec::contains
contains(vec, x) == \E i \in DOMAIN vec : vec[i] = x

\* Vec::retain(|ty| other.contains(ty))
retain(vec, other) == SelectSeq(vec, LAMBDA ty : contains(other, ty))

\* Faulty variant of option_max: a None in self is kept.
option_max_self_none_kept(a, b) ==
    IF a = None THEN None
    ELSE IF b = None THEN a
    ELSE IF Unwrap(b) >= Unwrap(a) THEN b ELSE a

\* Variant of option_max in which None orders after every Some.
option_max_none_greatest(a, b) ==
    IF a = None \/ b = None THEN None
    ELSE IF Unwrap(a) >= Unwrap(b) THEN a ELSE b

\* Ord::max on Option<u32>: None orders before every Some.
option_max(a, b) ==
    IF a = None THEN b
    ELSE IF b = None THEN a
    ELSE IF Unwrap(b) >= Unwrap(a) THEN b ELSE a

\* Option::or
option_or(a, b) == IF IsSome(a) THEN a ELSE b

MergeOk == "Ok"
TypesDoNotOverlap == "the allowed descriptor types of the two descriptors do not overlap"
DifferentFormats == "the descriptors require different formats"
DifferentScalarTypes == "the descriptors require different scalar types"
DifferentViewTypes == "the descriptors require different image view types"
MultisamplingDiffers == "the multisampling requirements of the descriptors differ"

\* Faulty variant of merge_checks: the multisampling check comes first.
merge_checks_multisampling_first(self, other) ==
    IF self.image_multisampled # other.image_multisampled
    THEN MultisamplingDiffers
    ELSE IF ~\E i \in DOMAIN self.descriptor_types :
                contains(other.descriptor_types, self.descriptor_types[i])
    THEN TypesDoNotOverlap
    ELSE IF /\ IsSome(self.image_format) /\ IsSome(other.image_format)
            /\ Unwrap(self.image_format) # Unwrap(other.image_format)
    THEN DifferentFormats
    ELSE IF /\ IsSome(self.image_scalar_type) /\ IsSome(other.image_scalar_type)
            /\ Unwrap(self.image_scalar_type) # Unwrap(other.image_scalar_type)
    THEN DifferentScalarTypes
    ELSE IF /\ IsSome(self.image_view_type) /\ IsSome(other.image_view_type)
            /\ Unwrap(self.image_view_type) # Unwrap(other.image_view_type)
    THEN DifferentViewTypes
    ELSE MergeOk

\* DescriptorBindingRequirements::merge, the checks: the first problem found,
\* or MergeOk.
merge_checks(self, other) ==
    IF ~\E i \in DOMAIN self.descriptor_types :
            contains(other.descriptor_types, self.descriptor_types[i])
    THEN TypesDoNotOverlap
    ELSE IF /\ IsSome(self.image_format) /\ IsSome(other.image_format)
            /\ Unwrap(self.image_format) # Unwrap(other.image_format)
    THEN DifferentFormats
    ELSE IF /\ IsSome(self.image_scalar_type) /\ IsSome(other.image_scalar_type)
            /\ Unwrap(self.image_scalar_type) # Unwrap(other.image_scalar_type)
    THEN DifferentScalarTypes
    ELSE IF /\ IsSome(self.image_view_type) /\ IsSome(other.image_view_type)
            /\ Unwrap(self.image_view_type) # Unwrap(other.image_view_type)
    THEN DifferentViewTypes
    ELSE IF self.image_multisampled # other.image_multisampled
    THEN MultisamplingDiffers
    ELSE MergeOk

\* Faulty variant of merge_descriptors: an occupied entry is overwritten by
\* the other side's requirements instead of being merged with them.
merge_descriptors_insert_only(descriptors, other_descriptors) ==
    [index \in (DOMAIN descriptors) \cup (DOMAIN other_descriptors) |->
        IF index \in DOMAIN other_descriptors THEN other_descriptors[index]
        ELSE descriptors[index]]

\* The loop over other.descriptors: a vacant entry gets a clone, an occupied
\* one is merged.
merge_descriptors(descriptors, other_descriptors) ==
    [index \in (DOMAIN descriptors) \cup (DOMAIN other_descriptors) |->
        IF index \notin DOMAIN other_descriptors THEN descriptors[index]
        ELSE IF index \notin DOMAIN descriptors THEN other_descriptors[index]
        ELSE DescriptorRequirements_merge(descriptors[index], other_descriptors[index])]

\* Faulty variant of merge_apply: stages assigned instead of or-ed.
merge_apply_stages_replaced(self, other) ==
    [descriptor_types |-> retain(self.descriptor_types, other.descriptor_types),
     descriptor_count |-> option_max(self.descriptor_count, other.descriptor_count),
     image_format |-> option_or(self.image_format, other.image_format),
     image_multisampled |-> self.image_multisampled,
     image_scalar_type |-> option_or(self.image_scalar_type, other.image_scalar_type),
     image_view_type |-> option_or(self.image_view_type, other.image_view_type),
     stages |-> other.stages,
     descriptors |-> merge_descriptors(self.descriptors, other.descriptors)]

\* Faulty variant of merge_apply: descriptor_types is not narrowed.
merge_apply_keeps_types(self, other) ==
    [descriptor_types |-> self.descriptor_types,
     descriptor_count |-> option_max(self.descriptor_count, other.descriptor_count),
     image_format |-> option_or(self.image_format, other.image_format),
     image_multisampled |-> self.image_multisampled,
     image_scalar_type |-> option_or(self.image_scalar_type, other.image_scalar_type),
     image_view_type |-> option_or(self.image_view_type, other.image_view_type),
     stages |-> self.stages \cup other.stages,
     descriptors |-> merge_descriptors(self.descriptors, other.descriptors)]

\* DescriptorBindingRequirements::merge, the part after the checks.
merge_apply(self, other) ==
    [descriptor_types |-> retain(self.descriptor_types, other.descriptor_types),
     descriptor_count |-> option_max(self.descriptor_count, other.descriptor_count),
     image_format |-> option_or(self.image_format, other.image_format),
     image_multisampled |-> self.image_multisampled,
     image_scalar_type |-> option_or(self.image_scalar_type, other.image_scalar_type),
     image_view_type |-> option_or(self.image_view_type, other.image_view_type),
     stages |-> self.stages \cup other.stages,
     descriptors |-> merge_descriptors(self.descriptors, other.descriptors)]

\* Faulty variant of merge: self is written before the checks decide.
merge_then_check(self, other) ==
    [result |-> merge_checks(self, other),
     self |-> merge_apply(self, other),
     other |-> other]

\* DescriptorBindingRequirements::merge: the outcome, and self and other as
\* the call leaves them.
DescriptorBindingRequirements_merge(self, other) ==
    LET problem == merge_checks(self, other)
    IN IF problem # MergeOk
       THEN [result |-> problem, self |-> self, other |-> other]
       ELSE [result |-> MergeOk, self |-> merge_apply(self, other), other |-> other]

(***************************************************************************)
(* The modules and the overrides the specialization behaviours draw from.  *)
(***************************************************************************)

Spirv(constants, entry_points) == [constants |-> constants, entry_points |-> entry_points]

\* No specialization constant; an ordinary constant sizes the array.
SpirvPlain ==
    Spirv(<< ConstantInstruction(10, None, SpecializationConstant("U32", 2)) >>,
          << EntryPointInstruction(1, "main", "Vertex", Some(10)) >>)

\* One specialization constant, constant_id 5, sizing the array.
SpirvOne ==
    Spirv(<< ConstantInstruction(10, Some(5), SpecializationConstant("U32", 3)) >>,
          << EntryPointInstruction(1, "main", "Fragment", Some(10)) >>)

\* Two specialization constants and two entry points of the same name.
SpirvTwo ==
    Spirv(<< ConstantInstruction(10, Some(5), SpecializationConstant("U32", 3)),
             ConstantInstruction(11, Some(7), SpecializationConstant("Bool", VK_TRUE)),
             ConstantInstruction(12, None, SpecializationConstant("U32", 2)) >>,
          << EntryPointInstruction(1, "main", "Vertex", Some(12)),
             EntryPointInstruction(2, "main", "Fragment", Some(10)) >>)

\* A signed 16-bit and an 8-bit specialization constant.
SpirvSigned ==
    Spirv(<< ConstantInstruction(10, Some(5), SpecializationConstant("I16", -1)),
             ConstantInstruction(11, Some(7), SpecializationConstant("U8", 5)) >>,
          << EntryPointInstruction(1, "vs", "Vertex", None),
             EntryPointInstruction(2, "fs", "Fragment", Some(11)) >>)

BaseModules ==
    {from_handle_with_spirv(spirv) :
        spirv \in {SpirvPlain, SpirvOne, SpirvTwo, SpirvSigned}}

\* constant_id 9 is defined by none of the modules.
ConstantIds == {5, 7, 9}

\* The values a caller may give each constant_id: the defaults of the modules
\* above, other values of the same variant, and other variants of the same
\* and of another size.
OverrideValues(constant_id) ==
    CASE constant_id = 5 ->
            {SpecializationConstant("U32", 3), SpecializationConstant("U32", 5),
             SpecializationConstant("I32", 5), SpecializationConstant("F32", 1065353216),
             SpecializationConstant("I16", -1)}
      [] constant_id = 7 ->
            {SpecializationConstant("Bool", VK_TRUE), SpecializationConstant("U8", 5),
             SpecializationConstant("I8", 5)}
      [] OTHER -> {SpecializationConstant("I64", -1)}

SpecializationInfos ==
    UNION {{info \in [ids -> UNION {OverrideValues(id) : id \in ids}] :
                \A id \in ids : info[id] \in OverrideValues(id)}
           : ids \in SUBSET ConstantIds}

(***************************************************************************)
(* Specialization behaviours: any sequence of specialize calls on one base *)
(* module.  `module` keeps the module the last successful call returned.   *)
(***************************************************************************)

\* No requirements object exists and no merge was called.
NoMerge ==
    /\ reqs = << >>
    /\ orig = << >>
    /\ calls = << >>
    /\ last = None

\* No shader interface exists and matches was not called.
NoMatches ==
    /\ upstream = << >>
    /\ downstream = << >>
    /\ matched = None

\* No entry point was looked up.
NoLookup == found = None

\* Nothing of the lifetime behaviours exists.
NoLifetime ==
    /\ arcs = None
    /\ held = None

\* Nothing of the concurrent behaviours exists.
NoConcurrent ==
    /\ threads = None
    /\ base_at_start = None

\* Nothing of the creation behaviours exists.
NoCreation ==
    /\ creation = None

\* Nothing of the privateData behaviours exists.
NoPrivateData ==
    /\ private_data = None
    /\ set_calls = None
    /\ got = None

\* Nothing of the frame behaviours exists.
NoFrame ==
    /\ system = None
    /\ frame = None
    /\ returned = None
    /\ log = None
    /\ panicked = None
    /\ overflow_checks = None
    /\ frames = None

InitSpecialize ==
    /\ base \in BaseModules
    /\ module = None
    /\ spec_result = [status |-> "none", constant_id |-> None, info |-> << >>]
    /\ NoMerge /\ NoMatches /\ NoLookup /\ NoLifetime /\ NoConcurrent /\ NoCreation /\ NoPrivateData /\ NoFrame

Specialize(specialization_info) ==
    /\ \E out \in specialize(base, specialization_info) :
          /\ base' = out.base_module
          /\ module' = IF IsSome(out.module) THEN out.module ELSE module
          /\ spec_result' = [status |-> out.result.status,
                              constant_id |-> out.result.constant_id,
                              info |-> specialization_info]
    /\ UNCHANGED << mergeVars, matchesVars, lookupVars, lifetimeVars, concurrentVars, creationVars, privateDataVars,
                    frameVars >>

NextSpecialize == \E specialization_info \in SpecializationInfos : Specialize(specialization_info)

SpecSpecialize == InitSpecialize /\ [][NextSpecialize]_vars


(***************************************************************************)
(* The requirements the merge behaviours draw from: a buffer binding and   *)
(* an image binding, each as it is and with one or two fields changed.     *)
(***************************************************************************)

MaxDescriptorCount == 2

ReadBy(stages) == [DescriptorRequirements_default EXCEPT !.memory_read = stages]

WrittenBy(stages) ==
    [DescriptorRequirements_default EXCEPT !.memory_write = stages,
                                           !.storage_image_atomic = TRUE]

SampledBy(stages) ==
    [DescriptorRequirements_default EXCEPT
        !.memory_read = stages,
        !.sampler_compare = TRUE,
        !.sampler_no_unnormalized_coordinates = TRUE,
        !.sampler_with_images = {DescriptorIdentifier(0, 1, 0)}]

GatheredBy(stages) ==
    [DescriptorRequirements_default EXCEPT
        !.memory_read = stages,
        !.sampler_no_ycbcr_conversion = TRUE,
        !.sampler_with_images = {DescriptorIdentifier(0, 2, 0)}]

BufferRequirements ==
    [descriptor_types |-> << "UniformBuffer", "StorageBuffer" >>,
     descriptor_count |-> Some(1),
     image_format |-> None,
     image_multisampled |-> FALSE,
     image_scalar_type |-> None,
     image_view_type |-> None,
     stages |-> {"Vertex"},
     descriptors |-> (None :> ReadBy({"Vertex"}))]

BufferChanged ==
    [descriptor_types |-> << "StorageBuffer", "StorageImage" >>,
     descriptor_count |-> None,
     image_format |-> Some("R16G16_SFLOAT"),
     image_multisampled |-> TRUE,
     image_scalar_type |-> Some("Uint"),
     image_view_type |-> Some("Dim3d"),
     stages |-> {"Fragment"},
     descriptors |-> (Some(0) :> WrittenBy({"Fragment"}))]

ImageRequirements ==
    [descriptor_types |-> << "StorageImage", "UniformBuffer" >>,
     descriptor_count |-> Some(MaxDescriptorCount),
     image_format |-> Some("R8G8B8A8_UNORM"),
     image_multisampled |-> FALSE,
     image_scalar_type |-> Some("Float"),
     image_view_type |-> Some("Dim2d"),
     stages |-> {"Fragment"},
     descriptors |-> (Some(0) :> SampledBy({"Fragment"}))]

ImageChanged ==
    [descriptor_types |-> << "StorageImage", "StorageImage" >>,
     descriptor_count |-> Some(1),
     image_format |-> Some("R16G16_SFLOAT"),
     image_multisampled |-> TRUE,
     image_scalar_type |-> Some("Uint"),
     image_view_type |-> Some("Dim3d"),
     stages |-> {"Vertex", "Fragment"},
     descriptors |-> (None :> WrittenBy({"Fragment"})) @@ (Some(0) :> GatheredBy({"Vertex"}))]

FieldNames == DOMAIN BufferRequirements

\* `requirements` with the one field `field` taken from `changed`.
WithField(requirements, changed, field) ==
    [f \in FieldNames |-> IF f = field THEN changed[f] ELSE requirements[f]]

Requirements ==
    {BufferRequirements, ImageRequirements}
        \cup {WithField(BufferRequirements, BufferChanged, f) : f \in FieldNames}
        \cup {WithField(ImageRequirements, ImageChanged, f) : f \in FieldNames}

\* The same with a second field changed as well.
RequirementsTwoChanged ==
    Requirements
        \cup {WithField(WithField(BufferRequirements, BufferChanged, f), BufferChanged, g) :
                    f \in FieldNames, g \in FieldNames}
        \cup {WithField(WithField(ImageRequirements, ImageChanged, f), ImageChanged, g) :
                    f \in FieldNames, g \in FieldNames}

\* What the third object, which is only ever merged into the others, may be.
ThirdRequirements ==
    {BufferRequirements, ImageRequirements,
     WithField(BufferRequirements, BufferChanged, "stages"),
     WithField(ImageRequirements, ImageChanged, "descriptors")}

(***************************************************************************)
(* Merge behaviours: three requirement objects and up to MaxMerges merge   *)
(* calls of one into another.                                              *)
(***************************************************************************)

MaxMerges == 2

\* << self, other >>: which object may be merged into which.
MergePairs == {<< 1, 2 >>, << 2, 1 >>, << 1, 3 >>, << 2, 3 >>}

\* One base module exists and specialize was not called.
NoSpecialize ==
    /\ base = from_handle_with_spirv(SpirvPlain)
    /\ module = None
    /\ spec_result = [status |-> "none", constant_id |-> None, info |-> << >>]

InitMerge ==
    /\ NoSpecialize /\ NoMatches /\ NoLookup /\ NoLifetime /\ NoConcurrent /\ NoCreation /\ NoPrivateData /\ NoFrame
    /\ \E a \in RequirementsTwoChanged, b \in Requirements, c \in ThirdRequirements :
          reqs = << a, b, c >>
    /\ orig = reqs
    /\ calls = << >>
    /\ last = None

\* reqs[self].merge(&reqs[other])
Merge(self, other) ==
    /\ Len(calls) < MaxMerges
    /\ LET out == DescriptorBindingRequirements_merge(reqs[self], reqs[other])
       IN /\ reqs' = [reqs EXCEPT ![self] = out.self, ![other] = out.other]
          /\ last' = Some([self |-> self, other |-> other,
                           self_before |-> reqs[self], other_before |-> reqs[other],
                           result |-> out.result])
    /\ calls' = Append(calls, << self, other >>)
    /\ UNCHANGED << orig, specializeVars, matchesVars, lookupVars, lifetimeVars, concurrentVars, creationVars, privateDataVars,
                    frameVars >>

NextMerge == \E pair \in MergePairs : Merge(pair[1], pair[2])

SpecMerge == InitMerge /\ [][NextMerge]_vars

(***************************************************************************)
(* ShaderInterface: the elements one stage exposes to the next.  An        *)
(* interface is the sequence of its elements in declaration order.         *)
(***************************************************************************)

ShaderInterfaceEntryType(base_type, num_components, num_elements, is_64bit) ==
    [base_type |-> base_type, num_components |-> num_components,
     num_elements |-> num_elements, is_64bit |-> is_64bit]

ShaderInterfaceEntry(location, index, component, name, ty) ==
    [location |-> location, index |-> index, component |-> component,
     name |-> name, ty |-> ty]

\* Faulty variant of num_locations: the assertion is left out and a 64-bit
\* type takes the locations of its elements like any other.
num_locations_unasserted(ty) == Some(ty.num_elements)

\* ShaderInterfaceEntryType::num_locations: None stands for the panic of the
\* assertion that the type is not 64-bit.
num_locations(ty) == IF ty.is_64bit THEN None ELSE Some(ty.num_elements)

MatchesOk == [status |-> "Ok", problem |-> "", location |-> None]
MatchesPanic == [status |-> "Panic", problem |-> "", location |-> None]
NotEqualCount ==
    [status |-> "Err",
     problem |-> "the number of elements in the shader interfaces are not equal",
     location |-> None]
MissingElement(loc) ==
    [status |-> "Err",
     problem |-> "the second shader is missing an interface element at location",
     location |-> Some(loc)]
TypeDiffers(loc) ==
    [status |-> "Err",
     problem |-> "the interface element at location does not have the same type in both shaders",
     location |-> Some(loc)]

\* Faulty variant of find_covering: only an element that starts at loc is
\* found, the locations its further array elements take are ignored.
RECURSIVE find_covering_first_location(_, _, _)
find_covering_first_location(other, loc, i) ==
    IF i > Len(other) THEN [panic |-> FALSE, found |-> None]
    ELSE IF loc >= other[i].location
    THEN LET n == num_locations(other[i].ty)
         IN IF n = None THEN [panic |-> TRUE, found |-> None]
            ELSE IF loc = other[i].location
            THEN [panic |-> FALSE, found |-> Some(i)]
            ELSE find_covering_first_location(other, loc, i + 1)
    ELSE find_covering_first_location(other, loc, i + 1)

\* other.elements().iter().find(..) from element i on: Some(index) of the
\* first element covering loc, None when there is none, and Panic when the
\* closure reaches num_locations of a 64-bit element.  The && short-circuits,
\* so num_locations is only called for an element with location <= loc.
RECURSIVE find_covering(_, _, _)
find_covering(other, loc, i) ==
    IF i > Len(other) THEN [panic |-> FALSE, found |-> None]
    ELSE IF loc >= other[i].location
    THEN LET n == num_locations(other[i].ty)
         IN IF n = None THEN [panic |-> TRUE, found |-> None]
            ELSE IF loc < other[i].location + Unwrap(n)
            THEN [panic |-> FALSE, found |-> Some(i)]
            ELSE find_covering(other, loc, i + 1)
    ELSE find_covering(other, loc, i + 1)

\* Faulty variant of match_locations: the component is compared along with
\* the type.
RECURSIVE match_locations_with_component(_, _, _, _)
match_locations_with_component(a, other, loc, end) ==
    IF loc >= end THEN MatchesOk
    ELSE LET b == find_covering(other, loc, 1)
         IN IF b.panic THEN MatchesPanic
            ELSE IF b.found = None THEN MissingElement(loc)
            ELSE IF a.ty # other[Unwrap(b.found)].ty
                    \/ a.component # other[Unwrap(b.found)].component
            THEN TypeDiffers(loc)
            ELSE match_locations_with_component(a, other, loc + 1, end)

\* The inner loop of matches: the locations loc .. end - 1 of element a.
RECURSIVE match_locations(_, _, _, _)
match_locations(a, other, loc, end) ==
    IF loc >= end THEN MatchesOk
    ELSE LET b == find_covering(other, loc, 1)
         IN IF b.panic THEN MatchesPanic
            ELSE IF b.found = None THEN MissingElement(loc)
            ELSE IF a.ty # other[Unwrap(b.found)].ty THEN TypeDiffers(loc)
            ELSE match_locations(a, other, loc + 1, end)

\* The outer loop of matches, from element i of self on.
RECURSIVE match_elements(_, _, _)
match_elements(self, other, i) ==
    IF i > Len(self) THEN MatchesOk
    ELSE LET a == self[i]
             n == num_locations(a.ty)
         IN IF n = None THEN MatchesPanic
            ELSE LET r == match_locations(a, other, a.location, a.location + Unwrap(n))
                 IN IF r # MatchesOk THEN r
                    ELSE match_elements(self, other, i + 1)

\* ShaderInterface::matches
ShaderInterface_matches(self, other) ==
    IF Len(self) # Len(other) THEN NotEqualCount
    ELSE match_elements(self, other, 1)

(***************************************************************************)
(* The interfaces the matching behaviours draw from.                       *)
(***************************************************************************)

MaxLocation == 2

\* vec4, ivec4, vec4[2] and the 64-bit dvec2.
EntryTypes ==
    {ShaderInterfaceEntryType("Float", 4, 1, FALSE),
     ShaderInterfaceEntryType("Sint", 4, 1, FALSE),
     ShaderInterfaceEntryType("Float", 4, 2, FALSE),
     ShaderInterfaceEntryType("Float", 2, 1, TRUE)}

\* Elements as reflection names them first: no name, index 0, component 0.
Entries ==
    {ShaderInterfaceEntry(location, 0, 0, None, ty) :
        location \in 0..MaxLocation, ty \in EntryTypes}

\* The safety contract of ShaderInterface::new_unchecked: one entry per
\* location, an array element taking num_elements consecutive locations.
OneEntryPerLocation(elements) ==
    \A i, j \in DOMAIN elements :
        i < j => \/ elements[i].location + elements[i].ty.num_elements <= elements[j].location
                 \/ elements[j].location + elements[j].ty.num_elements <= elements[i].location

\* ShaderInterface::empty and ShaderInterface::new_unchecked with one or two
\* elements.
Interfaces ==
    {<< >>} \cup {<< e >> : e \in Entries}
            \cup {elements \in {<< e, f >> : e \in Entries, f \in Entries} :
                        OneEntryPerLocation(elements)}

\* Other values of << name, index, component >> an element may carry.
Labels == {<< Some("color"), 0, 0 >>, << None, 1, 0 >>, << None, 0, 1 >>}

(***************************************************************************)
(* Matching behaviours: two interfaces, the matches call between them and  *)
(* the replacement of an element's name, index and component.              *)
(***************************************************************************)

InitMatches ==
    /\ upstream \in Interfaces
    /\ downstream \in Interfaces
    /\ matched = None
    /\ NoSpecialize /\ NoMerge /\ NoLookup /\ NoLifetime /\ NoConcurrent /\ NoCreation /\ NoPrivateData /\ NoFrame

\* upstream.matches(&downstream), called once on the interfaces as built.
Matches ==
    /\ matched = None
    /\ matched' = Some([upstream |-> upstream, downstream |-> downstream,
                        result |-> ShaderInterface_matches(upstream, downstream)])
    /\ UNCHANGED << upstream, downstream, specializeVars, mergeVars, lookupVars, lifetimeVars, concurrentVars, creationVars, privateDataVars,
                    frameVars >>

\* `interface` with name, index and component of element i replaced.
WithLabel(interface, i, label) ==
    [interface EXCEPT ![i] = ShaderInterfaceEntry(interface[i].location, label[2], label[3],
                                                   label[1], interface[i].ty)]

\* An interface equal to the matched one except for the label of element i
\* takes its place on the upstream side.
RelabelUpstream(i, label) ==
    /\ IsSome(matched)
    /\ upstream = Unwrap(matched).upstream
    /\ i \in DOMAIN upstream
    /\ upstream' = WithLabel(upstream, i, label)
    /\ UNCHANGED << downstream, matched, specializeVars, mergeVars, lookupVars, lifetimeVars, concurrentVars, creationVars, privateDataVars,
                    frameVars >>

\* The same on the downstream side.
RelabelDownstream(i, label) ==
    /\ IsSome(matched)
    /\ downstream = Unwrap(matched).downstream
    /\ i \in DOMAIN downstream
    /\ downstream' = WithLabel(downstream, i, label)
    /\ UNCHANGED << upstream, matched, specializeVars, mergeVars, lookupVars, lifetimeVars, concurrentVars, creationVars, privateDataVars,
                    frameVars >>

NextMatches ==
    \/ Matches
    \/ \E i \in 1..2, label \in Labels : RelabelUpstream(i, label)
    \/ \E i \in 1..2, label \in Labels : RelabelDownstream(i, label)

SpecMatches == InitMatches /\ [][NextMatches]_vars

(***************************************************************************)
(* Entry-point lookup.  The closure a lookup passes to                     *)
(* single_entry_point_filter is kept as the name and the execution model   *)
(* it compares with, None for what it does not look at.                    *)
(***************************************************************************)

EntryPoint(module_, id, info_index) ==
    [module |-> module_, id |-> id, info_index |-> info_index]

\* EntryPoint::info
EntryPoint_info(entry_point) ==
    entry_point.module.entry_point_infos[entry_point.info_index][2]

\* The closure applied to one EntryPointInfo.
filter(name, execution_model, infos) ==
    /\ IsSome(name) => infos.name = Unwrap(name)
    /\ IsSome(execution_model) => infos.execution_model = Unwrap(execution_model)

\* Faulty variant of single_entry_point_filter: the first match is returned
\* without looking for a second one.
single_entry_point_filter_first_match(self, name, execution_model) ==
    LET iter == SelectSeq([x \in DOMAIN self.entry_point_infos |-> x],
                          LAMBDA x : filter(name, execution_model,
                                            self.entry_point_infos[x][2]))
    IN IF iter = << >> THEN None
       ELSE Some(EntryPoint(self, self.entry_point_infos[Head(iter)][1], Head(iter)))

\* SpecializedShaderModule::single_entry_point_filter: iter is the sequence
\* of the indices whose info passes the filter.
single_entry_point_filter(self, name, execution_model) ==
    LET iter == SelectSeq([x \in DOMAIN self.entry_point_infos |-> x],
                          LAMBDA x : filter(name, execution_model,
                                            self.entry_point_infos[x][2]))
    IN IF iter = << >> THEN None
       ELSE IF Tail(iter) # << >> THEN None
       ELSE Some(EntryPoint(self, self.entry_point_infos[Head(iter)][1], Head(iter)))

SpecializedShaderModule_entry_point(self, name) ==
    single_entry_point_filter(self, Some(name), None)

SpecializedShaderModule_entry_point_with_execution(self, name, execution) ==
    single_entry_point_filter(self, Some(name), Some(execution))

SpecializedShaderModule_single_entry_point(self) ==
    single_entry_point_filter(self, None, None)

SpecializedShaderModule_single_entry_point_with_execution(self, execution) ==
    single_entry_point_filter(self, None, Some(execution))

\* ShaderModule::specialize_unchecked
specialize_unchecked(base_module, specialization_info) ==
    SpecializedShaderModule_new_unchecked(base_module, specialization_info).module

\* HashMap::default()
HashMap_default == [constant_id \in {} |-> SpecializationConstant("U32", 0)]

ShaderModule_entry_point(self, name) ==
    SpecializedShaderModule_entry_point(specialize_unchecked(self, HashMap_default), name)

\* Faulty variant of ShaderModule::entry_point_with_execution: the execution
\* model is dropped on the way to the specialized module.
entry_point_with_execution_by_name(self, name, execution) ==
    SpecializedShaderModule_entry_point(specialize_unchecked(self, HashMap_default), name)

ShaderModule_entry_point_with_execution(self, name, execution) ==
    SpecializedShaderModule_entry_point_with_execution(
        specialize_unchecked(self, HashMap_default), name, execution)

ShaderModule_single_entry_point(self) ==
    SpecializedShaderModule_single_entry_point(specialize_unchecked(self, HashMap_default))

ShaderModule_single_entry_point_with_execution(self, execution) ==
    SpecializedShaderModule_single_entry_point_with_execution(
        specialize_unchecked(self, HashMap_default), execution)

(***************************************************************************)
(* Lookup behaviours: any sequence of specialize calls on one base module, *)
(* then one lookup, on the specialized module or on the base module.       *)
(***************************************************************************)

EntryPointNames == {"main", "vs", "fs", "missing"}
ExecutionModels == {"Vertex", "Fragment", "GLCompute"}

\* The arguments the four methods take; an argument a method does not take
\* is None.
LookupCalls ==
    {[method |-> "entry_point", name |-> Some(n), execution |-> None] :
        n \in EntryPointNames}
    \cup {[method |-> "entry_point_with_execution", name |-> Some(n), execution |-> Some(e)] :
        n \in EntryPointNames, e \in ExecutionModels}
    \cup {[method |-> "single_entry_point", name |-> None, execution |-> None]}
    \cup {[method |-> "single_entry_point_with_execution", name |-> None, execution |-> Some(e)] :
        e \in ExecutionModels}

InitLookup ==
    /\ base \in BaseModules
    /\ module = None
    /\ spec_result = [status |-> "none", constant_id |-> None, info |-> << >>]
    /\ found = None
    /\ NoMerge /\ NoMatches /\ NoLifetime /\ NoConcurrent /\ NoCreation /\ NoPrivateData /\ NoFrame

\* A specialize call made before the lookup.
SpecializeBeforeLookup(specialization_info) ==
    /\ found = None
    /\ Specialize(specialization_info)

\* One of the four lookups of the specialized module.
LookupSpecialized(call) ==
    /\ found = None
    /\ IsSome(module)
    /\ LET self == Unwrap(module)
       IN found' = Some([on |-> "SpecializedShaderModule", call |-> call,
            result |->
              CASE call.method = "entry_point" ->
                      SpecializedShaderModule_entry_point(self, Unwrap(call.name))
                [] call.method = "entry_point_with_execution" ->
                      SpecializedShaderModule_entry_point_with_execution(
                          self, Unwrap(call.name), Unwrap(call.execution))
                [] call.method = "single_entry_point" ->
                      SpecializedShaderModule_single_entry_point(self)
                [] call.method = "single_entry_point_with_execution" ->
                      SpecializedShaderModule_single_entry_point_with_execution(
                          self, Unwrap(call.execution))])
    /\ UNCHANGED << specializeVars, mergeVars, matchesVars, lifetimeVars, concurrentVars, creationVars, privateDataVars,
                    frameVars >>

\* One of the four lookups of the base module.
LookupBase(call) ==
    /\ found = None
    /\ found' = Some([on |-> "ShaderModule", call |-> call,
            result |->
              CASE call.method = "entry_point" ->
                      ShaderModule_entry_point(base, Unwrap(call.name))
                [] call.method = "entry_point_with_execution" ->
                      ShaderModule_entry_point_with_execution(
                          base, Unwrap(call.name), Unwrap(call.execution))
                [] call.method = "single_entry_point" ->
                      ShaderModule_single_entry_point(base)
                [] call.method = "single_entry_point_with_execution" ->
                      ShaderModule_single_entry_point_with_execution(
                          base, Unwrap(call.execution))])
    /\ UNCHANGED << specializeVars, mergeVars, matchesVars, lifetimeVars, concurrentVars, creationVars, privateDataVars,
                    frameVars >>

NextLookup ==
    \/ \E specialization_info \in SpecializationInfos :
            SpecializeBeforeLookup(specialization_info)
    \/ \E call \in LookupCalls : LookupSpecialized(call)
    \/ \E call \in LookupCalls : LookupBase(call)

SpecLookup == InitLookup /\ [][NextLookup]_vars

(***************************************************************************)
(* Ownership.  `arcs` has the strong count of the Arc<ShaderModule>        *)
(* (base), that of each Arc<SpecializedShaderModule> (specialized, 0 for   *)
(* one that does not exist) and the number of destroy_shader_module calls. *)
(***************************************************************************)

\* self.clone() on an Arc<ShaderModule>
clone_base(a) == [a EXCEPT !.base = @ + 1]

\* Drop of one Arc<ShaderModule>: the last one runs Drop for ShaderModule.
drop_base(a) ==
    IF a.base = 1
    THEN [a EXCEPT !.base = 0, !.destroy_calls = @ + 1]
    ELSE [a EXCEPT !.base = @ - 1]

\* Faulty variant of new_specialized: the module keeps no Arc of its base.
new_specialized_borrowing(a, id) == [a EXCEPT !.specialized[id] = 1]

\* ShaderModule::specialize / specialize_unchecked: a clone of the base Arc
\* moves into the new module's base_module field.
new_specialized(a, id) == [clone_base(a) EXCEPT !.specialized[id] = 1]

\* self.clone() on an Arc<SpecializedShaderModule>
clone_specialized(a, id) == [a EXCEPT !.specialized[id] = @ + 1]

\* Drop of one Arc<SpecializedShaderModule>: the last one drops the module
\* and with it the base_module field.
drop_specialized(a, id) ==
    IF a.specialized[id] = 1
    THEN drop_base([a EXCEPT !.specialized[id] = 0])
    ELSE [a EXCEPT !.specialized[id] = @ - 1]

MaxSpecialized == 2
MaxHeld == 2

SpecializedIds == 1..MaxSpecialized

InitLifetime ==
    /\ arcs = [base |-> 1, specialized |-> [id \in SpecializedIds |-> 0], destroy_calls |-> 0]
    /\ held = [base |-> 1, specialized |-> [id \in SpecializedIds |-> 0],
               entry_points |-> [id \in SpecializedIds |-> 0]]
    /\ NoSpecialize /\ NoMerge /\ NoMatches /\ NoLookup /\ NoConcurrent /\ NoCreation /\ NoPrivateData /\ NoFrame

\* The program can reach the base module: through an Arc it holds or through
\* base_module() of a specialized module it can reach.
ReachesSpecialized(id) == held.specialized[id] > 0 \/ held.entry_points[id] > 0
ReachesBase == held.base > 0 \/ \E id \in SpecializedIds : ReachesSpecialized(id)

CloneBase ==
    /\ ReachesBase
    /\ held.base < MaxHeld
    /\ arcs' = clone_base(arcs)
    /\ held' = [held EXCEPT !.base = @ + 1]
    /\ UNCHANGED << specializeVars, mergeVars, matchesVars, lookupVars, concurrentVars, creationVars, privateDataVars,
                    frameVars >>

DropBase ==
    /\ held.base > 0
    /\ arcs' = drop_base(arcs)
    /\ held' = [held EXCEPT !.base = @ - 1]
    /\ UNCHANGED << specializeVars, mergeVars, matchesVars, lookupVars, concurrentVars, creationVars, privateDataVars,
                    frameVars >>

\* base.specialize(info): Ok gives a new module; on Err the clone of the base
\* Arc made for the call is dropped again.
SpecializeHeld(id, ok) ==
    /\ held.base > 0
    /\ arcs.specialized[id] = 0
    /\ arcs' = IF ok THEN new_specialized(arcs, id) ELSE drop_base(clone_base(arcs))
    /\ held' = IF ok THEN [held EXCEPT !.specialized[id] = 1] ELSE held
    /\ UNCHANGED << specializeVars, mergeVars, matchesVars, lookupVars, concurrentVars, creationVars, privateDataVars,
                    frameVars >>

CloneSpecialized(id) ==
    /\ ReachesSpecialized(id)
    /\ held.specialized[id] < MaxHeld
    /\ arcs' = clone_specialized(arcs, id)
    /\ held' = [held EXCEPT !.specialized[id] = @ + 1]
    /\ UNCHANGED << specializeVars, mergeVars, matchesVars, lookupVars, concurrentVars, creationVars, privateDataVars,
                    frameVars >>

DropSpecialized(id) ==
    /\ held.specialized[id] > 0
    /\ arcs' = drop_specialized(arcs, id)
    /\ held' = [held EXCEPT !.specialized[id] = @ - 1]
    /\ UNCHANGED << specializeVars, mergeVars, matchesVars, lookupVars, concurrentVars, creationVars, privateDataVars,
                    frameVars >>

\* A lookup on a specialized module that returns Some: the EntryPoint holds
\* a clone of the module's Arc.  EntryPoint::clone does the same.
NewEntryPoint(id) ==
    /\ ReachesSpecialized(id)
    /\ held.entry_points[id] < MaxHeld
    /\ arcs' = clone_specialized(arcs, id)
    /\ held' = [held EXCEPT !.entry_points[id] = @ + 1]
    /\ UNCHANGED << specializeVars, mergeVars, matchesVars, lookupVars, concurrentVars, creationVars, privateDataVars,
                    frameVars >>

\* A lookup on the base module: the specialized module is a temporary that
\* is dropped when the call returns, after the EntryPoint, if one was
\* found, took its clone.
BaseEntryPoint(id, is_found) ==
    /\ held.base > 0
    /\ arcs.specialized[id] = 0
    /\ LET temporary == new_specialized(arcs, id)
       IN arcs' = IF is_found
                  THEN drop_specialized(clone_specialized(temporary, id), id)
                  ELSE drop_specialized(temporary, id)
    /\ held' = IF is_found THEN [held EXCEPT !.entry_points[id] = 1] ELSE held
    /\ UNCHANGED << specializeVars, mergeVars, matchesVars, lookupVars, concurrentVars, creationVars, privateDataVars,
                    frameVars >>

DropEntryPoint(id) ==
    /\ held.entry_points[id] > 0
    /\ arcs' = drop_specialized(arcs, id)
    /\ held' = [held EXCEPT !.entry_points[id] = @ - 1]
    /\ UNCHANGED << specializeVars, mergeVars, matchesVars, lookupVars, concurrentVars, creationVars, privateDataVars,
                    frameVars >>

NextLifetime ==
    \/ CloneBase
    \/ DropBase
    \/ \E id \in SpecializedIds, ok \in BOOLEAN : SpecializeHeld(id, ok)
    \/ \E id \in SpecializedIds : CloneSpecialized(id)
    \/ \E id \in SpecializedIds : DropSpecialized(id)
    \/ \E id \in SpecializedIds : NewEntryPoint(id)
    \/ \E id \in SpecializedIds, is_found \in BOOLEAN : BaseEntryPoint(id, is_found)
    \/ \E id \in SpecializedIds : DropEntryPoint(id)

SpecLifetime == InitLifetime /\ [][NextLifetime]_vars

(***************************************************************************)
(* Concurrent specialization: two threads call specialize on the same      *)
(* Arc<ShaderModule>.  A call is taken apart into the steps at which it    *)
(* reads the base module or writes a graph: validation, the clone of the   *)
(* graph, apply_specialization, and the reflection of the entry points.    *)
(***************************************************************************)

\* Faulty variant of apply_step: the override is written into the graph of
\* the base module and the thread goes on with that graph.
apply_step_in_place(base_module, spirv, specialization_info) ==
    LET applied == apply_specialization(base_module.spirv, specialization_info)
    IN [base_module |-> [base_module EXCEPT !.spirv = applied],
        spirv |-> IF IsSome(spirv) THEN Some(applied) ELSE None]

\* spirv.apply_specialization(&specialization_info) on the thread's clone:
\* the base module and the clone as the step leaves them.
apply_step(base_module, spirv, specialization_info) ==
    [base_module |-> base_module,
     spirv |-> IF IsSome(spirv)
               THEN Some(apply_specialization(Unwrap(spirv), specialization_info))
               ELSE None]

Threads == {1, 2}

\* The overrides a thread may pass.
ThreadInfos ==
    {info \in SpecializationInfos :
        /\ DOMAIN info \subseteq {5, 7}
        /\ 5 \in DOMAIN info => info[5].variant \in {"U32", "I16", "F32"}
        /\ 7 \in DOMAIN info => info[7].variant \in {"Bool", "U8"}}

InitConcurrent ==
    /\ base \in BaseModules
    /\ module = None
    /\ spec_result = [status |-> "none", constant_id |-> None, info |-> << >>]
    /\ base_at_start = base
    /\ \E first \in ThreadInfos : \E second \in ThreadInfos \ {first} :
          threads = [t \in Threads |->
                        [pc |-> "validate",
                         specialization_info |-> IF t = 1 THEN first ELSE second,
                         spirv |-> None,
                         result |-> None]]
    /\ NoMerge /\ NoMatches /\ NoLookup /\ NoLifetime /\ NoCreation /\ NoPrivateData /\ NoFrame

\* Self::validate_new(&base_module, &specialization_info)?
Validate(t) ==
    /\ threads[t].pc = "validate"
    /\ \E r \in SpecializedShaderModule_validate_new(base, threads[t].specialization_info) :
          threads' = [threads EXCEPT ![t] =
                        IF r = SpecOk
                        THEN [@ EXCEPT !.pc = "clone"]
                        ELSE [@ EXCEPT !.pc = "done",
                                       !.result = Some([result |-> r, module |-> None])]]
    /\ UNCHANGED << base, module, spec_result, base_at_start,
                    mergeVars, matchesVars, lookupVars, lifetimeVars,
                    creationVars, privateDataVars, frameVars >>

\* base_module.spirv.clone(), made when the base module has specialization
\* constants.
CloneSpirv(t) ==
    /\ threads[t].pc = "clone"
    /\ threads' = [threads EXCEPT ![t] =
                      [@ EXCEPT !.pc = "apply",
                                !.spirv = IF DOMAIN base.specialization_constants # {}
                                          THEN Some(base.spirv) ELSE None]]
    /\ UNCHANGED << base, module, spec_result, base_at_start,
                    mergeVars, matchesVars, lookupVars, lifetimeVars,
                    creationVars, privateDataVars, frameVars >>

ApplySpecialization(t) ==
    /\ threads[t].pc = "apply"
    /\ LET out == apply_step(base, threads[t].spirv, threads[t].specialization_info)
       IN /\ base' = out.base_module
          /\ threads' = [threads EXCEPT ![t] = [@ EXCEPT !.pc = "reflect",
                                                          !.spirv = out.spirv]]
    /\ UNCHANGED << module, spec_result, base_at_start,
                    mergeVars, matchesVars, lookupVars, lifetimeVars,
                    creationVars, privateDataVars, frameVars >>

\* reflect::entry_points(spirv.as_ref().unwrap_or(&base_module.spirv)) and
\* Arc::new(Self { .. })
ReflectEntryPoints(t) ==
    /\ threads[t].pc = "reflect"
    /\ threads' = [threads EXCEPT ![t] =
          [@ EXCEPT !.pc = "done",
                    !.result = Some([result |-> SpecOk,
                        module |-> Some([specialization_info |-> threads[t].specialization_info,
                                         spirv |-> threads[t].spirv,
                                         entry_point_infos |->
                                            reflect_entry_points(
                                                IF IsSome(threads[t].spirv)
                                                THEN Unwrap(threads[t].spirv)
                                                ELSE base.spirv)])])]]
    /\ UNCHANGED << base, module, spec_result, base_at_start,
                    mergeVars, matchesVars, lookupVars, lifetimeVars,
                    creationVars, privateDataVars, frameVars >>

NextConcurrent ==
    \E t \in Threads :
        \/ Validate(t)
        \/ CloneSpirv(t)
        \/ ApplySpecialization(t)
        \/ ReflectEntryPoints(t)

SpecConcurrent == InitConcurrent /\ [][NextConcurrent]_vars

(***************************************************************************)
(* ShaderModule::new.  The code is kept as what the parser makes of it:    *)
(* whether its header is well formed, and the version, capabilities and    *)
(* extensions it declares.  A device is its API version, whether           *)
(* khr_spirv_1_4 is enabled, and the capabilities and extensions it takes. *)
(***************************************************************************)

Version(major, minor, patch) == [major |-> major, minor |-> minor, patch |-> patch]

\* Version::V1_0 .. Version::V1_6
V1(minor) == Version(1, minor, 0)

\* Version's derived Ord: major, then minor, then patch.
version_ge(a, b) ==
    \/ a.major > b.major
    \/ a.major = b.major /\ a.minor > b.minor
    \/ a.major = b.major /\ a.minor = b.minor /\ a.patch >= b.patch

ValidationError(context, problem) ==
    [status |-> "ValidationError", context |-> context, problem |-> problem]

\* ValidationError::add_context
add_context(err, context) ==
    [err EXCEPT !.context = IF @ = "" THEN context ELSE context \o "." \o @]

CreateOk == [status |-> "Ok", context |-> "", problem |-> ""]
VulkanError == [status |-> "VulkanError", context |-> "", problem |-> ""]

\* Spirv::new: the header is checked and the instructions decoded.
Spirv_new(code) ==
    IF code.well_formed
    THEN [result |-> CreateOk,
          spirv |-> Some([version |-> code.version, capabilities |-> code.capabilities,
                          extensions |-> code.extensions])]
    ELSE [result |-> ValidationError("", "malformed"), spirv |-> None]

\* Faulty variant of version_requirement: SPIR-V 1.4 is tied to the API
\* version alone.
version_requirement_without_extension(device, spirv_version) ==
    CASE spirv_version = V1(0) -> "accepted"
      [] spirv_version \in {V1(1), V1(2), V1(3)} ->
            IF ~version_ge(device.api_version, V1(1)) THEN "requires_one_of" ELSE "accepted"
      [] spirv_version \in {V1(4), V1(5)} ->
            IF ~version_ge(device.api_version, V1(2)) THEN "requires_one_of" ELSE "accepted"
      [] spirv_version = V1(6) ->
            IF ~version_ge(device.api_version, V1(3)) THEN "requires_one_of" ELSE "accepted"
      [] OTHER -> "not supported by Vulkan"

\* The match on spirv_version in ShaderModuleCreateInfo::validate.
version_requirement(device, spirv_version) ==
    CASE spirv_version = V1(0) -> "accepted"
      [] spirv_version \in {V1(1), V1(2), V1(3)} ->
            IF ~version_ge(device.api_version, V1(1)) THEN "requires_one_of" ELSE "accepted"
      [] spirv_version = V1(4) ->
            IF ~(version_ge(device.api_version, V1(2)) \/ device.khr_spirv_1_4)
            THEN "requires_one_of" ELSE "accepted"
      [] spirv_version = V1(5) ->
            IF ~version_ge(device.api_version, V1(2)) THEN "requires_one_of" ELSE "accepted"
      [] spirv_version = V1(6) ->
            IF ~version_ge(device.api_version, V1(3)) THEN "requires_one_of" ELSE "accepted"
      [] OTHER -> "not supported by Vulkan"

\* validate_spirv_capability over the capabilities of the code
validate_spirv_capability(device, capabilities) ==
    IF capabilities \subseteq device.capabilities THEN CreateOk
    ELSE ValidationError("", "uses the SPIR-V capability")

\* validate_spirv_extension over the extensions of the code
validate_spirv_extension(device, extensions) ==
    IF extensions \subseteq device.extensions THEN CreateOk
    ELSE ValidationError("", "uses the SPIR-V extension")

\* ShaderModuleCreateInfo::validate
ShaderModuleCreateInfo_validate(code, device, spirv) ==
    IF code.is_empty THEN ValidationError("code", "is empty")
    ELSE LET spirv_version == [spirv.version EXCEPT !.patch = 0]
             required == version_requirement(device, spirv_version)
         IN IF required = "not supported by Vulkan"
            THEN ValidationError("code", "uses SPIR-V version, which is not supported by Vulkan")
            ELSE IF required = "requires_one_of"
            THEN ValidationError("code", "uses SPIR-V version")
            ELSE IF validate_spirv_capability(device, spirv.capabilities) # CreateOk
            THEN add_context(validate_spirv_capability(device, spirv.capabilities), "code")
            ELSE IF validate_spirv_extension(device, spirv.extensions) # CreateOk
            THEN add_context(validate_spirv_extension(device, spirv.extensions), "code")
            ELSE CreateOk

\* Faulty variant of ShaderModule::validate_new: nothing is checked.
validate_new_unchecked(device, code, spirv) == CreateOk

\* ShaderModule::validate_new
ShaderModule_validate_new(device, code, spirv) ==
    LET r == ShaderModuleCreateInfo_validate(code, device, spirv)
    IN IF r = CreateOk THEN CreateOk ELSE add_context(r, "create_info")

(***************************************************************************)
(* Creation behaviours: one ShaderModule::new call on some code and some   *)
(* device, taken step by step: parse, validate, driver call.               *)
(***************************************************************************)

MaxMinor == 7
MaxPatch == 1

SpirvVersions ==
    {Version(major, minor, patch) :
        major \in 0..2, minor \in 0..MaxMinor, patch \in 0..MaxPatch}

Codes ==
    {[is_empty |-> e, well_formed |-> FALSE, version |-> V1(0),
      capabilities |-> {}, extensions |-> {}] : e \in BOOLEAN}
    \cup {[is_empty |-> FALSE, well_formed |-> TRUE, version |-> v,
           capabilities |-> c, extensions |-> x] :
            v \in SpirvVersions,
            c \in {{"Shader"}, {"Shader", "Geometry"}},
            x \in {{}, {"SPV_KHR_multiview"}}}

Devices ==
    {[api_version |-> Version(1, minor, patch), khr_spirv_1_4 |-> k,
      capabilities |-> c, extensions |-> x] :
        minor \in 0..3, patch \in 0..MaxPatch, k \in BOOLEAN,
        c \in {{"Shader"}, {"Shader", "Geometry"}},
        x \in {{}, {"SPV_KHR_multiview"}}}

InitCreation ==
    /\ \E device \in Devices, code \in Codes :
          creation = [device |-> device, code |-> code, pc |-> "parse",
                      spirv |-> None, steps |-> << >>, validated |-> None,
                      result |-> None, create_calls |-> 0, modules |-> 0]
    /\ NoSpecialize /\ NoMerge /\ NoMatches /\ NoLookup /\ NoLifetime /\ NoConcurrent /\ NoPrivateData /\ NoFrame

\* Spirv::new(create_info.code).map_err(..)?
Parse ==
    /\ creation.pc = "parse"
    /\ LET parsed == Spirv_new(creation.code)
       IN creation' =
            IF IsSome(parsed.spirv)
            THEN [creation EXCEPT !.pc = "validate", !.spirv = parsed.spirv,
                                  !.steps = Append(@, "parse")]
            ELSE [creation EXCEPT
                    !.pc = "returned", !.steps = Append(@, "parse"),
                    !.result = Some(ValidationError("create_info.code",
                                        "error while parsing: " \o parsed.result.problem))]
    /\ UNCHANGED << specializeVars, mergeVars, matchesVars, lookupVars, lifetimeVars,
                    concurrentVars, privateDataVars, frameVars >>

\* Self::validate_new(&device, &create_info, &spirv)?
ValidateNew ==
    /\ creation.pc = "validate"
    /\ LET r == ShaderModule_validate_new(creation.device, creation.code,
                                          Unwrap(creation.spirv))
       IN creation' =
            IF r = CreateOk
            THEN [creation EXCEPT !.pc = "create", !.validated = Some(r),
                                  !.steps = Append(@, "validate")]
            ELSE [creation EXCEPT !.pc = "returned", !.validated = Some(r),
                                  !.steps = Append(@, "validate"),
                                  !.result = Some(r)]
    /\ UNCHANGED << specializeVars, mergeVars, matchesVars, lookupVars, lifetimeVars,
                    concurrentVars, privateDataVars, frameVars >>

\* Self::new_with_spirv_unchecked: the driver's create_shader_module, which
\* may fail, then from_handle_with_spirv.
CreateShaderModule(vk_success) ==
    /\ creation.pc = "create"
    /\ creation' =
          [creation EXCEPT !.pc = "returned",
                           !.steps = Append(@, "create_shader_module"),
                           !.create_calls = @ + 1,
                           !.modules = IF vk_success THEN @ + 1 ELSE @,
                           !.result = Some(IF vk_success THEN CreateOk ELSE VulkanError)]
    /\ UNCHANGED << specializeVars, mergeVars, matchesVars, lookupVars, lifetimeVars,
                    concurrentVars, privateDataVars, frameVars >>

NextCreation ==
    \/ Parse
    \/ ValidateNew
    \/ \E vk_success \in BOOLEAN : CreateShaderModule(vk_success)

SpecCreation == InitCreation /\ [][NextCreation]_vars

(***************************************************************************)
(* Private data (vulkano/src/device/private_data.rs).  The driver keeps    *)
(* one u64 per slot and object, 0 before the first set.  The Vulkan 1.3    *)
(* entry points and those of ext_private_data are the same driver          *)
(* functions, so the branch on the API version is not kept.                *)
(***************************************************************************)

\* vkSetPrivateData
vk_set_private_data(store, slot, object, data) ==
    [store EXCEPT ![<< slot, object >>] = data]

\* vkGetPrivateData
vk_get_private_data(store, slot, object) == store[<< slot, object >>]

\* PrivateDataSlot::validate_set_private_data:
\* assert_eq!(self.device(), object.device())
validate_set_private_data(slot, object) ==
    IF slot.device = object.device THEN "Ok" ELSE "Panic"

\* Faulty variant of set_private_data_unchecked: a value once set is kept.
set_private_data_unchecked_once(store, slot, object, data, vk_success) ==
    IF vk_success
    THEN [result |-> "Ok",
          store |-> IF vk_get_private_data(store, slot.handle, object.handle) = 0
                    THEN vk_set_private_data(store, slot.handle, object.handle, data)
                    ELSE store]
    ELSE [result |-> "Err", store |-> store]

\* Faulty variant of set_private_data_unchecked: the slot handle is not
\* passed on, so the value is stored for the object in every slot.
set_private_data_unchecked_every_slot(store, slot, object, data, vk_success) ==
    IF vk_success
    THEN [result |-> "Ok",
          store |-> [pair \in DOMAIN store |->
                        IF pair[2] = object.handle THEN data ELSE store[pair]]]
    ELSE [result |-> "Err", store |-> store]

\* PrivateDataSlot::set_private_data_unchecked: the driver call either
\* stores the value or fails and stores nothing.
set_private_data_unchecked(store, slot, object, data, vk_success) ==
    IF vk_success
    THEN [result |-> "Ok",
          store |-> vk_set_private_data(store, slot.handle, object.handle, data)]
    ELSE [result |-> "Err", store |-> store]

\* PrivateDataSlot::set_private_data
set_private_data(store, slot, object, data, vk_success) ==
    IF validate_set_private_data(slot, object) = "Panic"
    THEN [result |-> "Panic", store |-> store]
    ELSE set_private_data_unchecked(store, slot, object, data, vk_success)

\* PrivateDataSlot::get_private_data
get_private_data(store, slot, object) ==
    vk_get_private_data(store, slot.handle, object.handle)

(***************************************************************************)
(* Private-data behaviours: two slots of one device, two objects of that   *)
(* device and one of another, up to MaxSets set calls and any gets.        *)
(***************************************************************************)

MaxSets == 2

PrivateDataSlots == {[handle |-> h, device |-> "device"] : h \in {1, 2}}

Objects ==
    {[handle |-> h, device |-> "device"] : h \in {1, 2}}
        \cup {[handle |-> 3, device |-> "other device"]}

Data == {0, 1, 2}

InitPrivateData ==
    /\ private_data = [pair \in {1, 2} \X {1, 2, 3} |-> 0]
    /\ set_calls = << >>
    /\ got = None
    /\ NoSpecialize /\ NoMerge /\ NoMatches /\ NoLookup /\ NoLifetime /\ NoConcurrent /\ NoCreation /\ NoFrame

\* slot.set_private_data(&object, data)
SetPrivateData(slot, object, data, vk_success) ==
    /\ Len(set_calls) < MaxSets
    /\ LET out == set_private_data(private_data, slot, object, data, vk_success)
       IN /\ private_data' = out.store
          /\ set_calls' = Append(set_calls, [slot |-> slot.handle, object |-> object.handle,
                                             data |-> data, result |-> out.result])
    /\ UNCHANGED << got, specializeVars, mergeVars, matchesVars, lookupVars, lifetimeVars,
                    concurrentVars, creationVars, frameVars >>

\* slot.get_private_data(&object), for an object of the slot's device
GetPrivateData(slot, object) ==
    /\ slot.device = object.device
    /\ got' = Some([slot |-> slot.handle, object |-> object.handle,
                    after |-> Len(set_calls),
                    data |-> get_private_data(private_data, slot, object)])
    /\ UNCHANGED << private_data, set_calls, specializeVars, mergeVars, matchesVars,
                    lookupVars, lifetimeVars, concurrentVars, creationVars,
                    frameVars >>

NextPrivateData ==
    \/ \E slot \in PrivateDataSlots, object \in Objects, data \in Data, vk_success \in BOOLEAN :
            SetPrivateData(slot, object, data, vk_success)
    \/ \E slot \in PrivateDataSlots, object \in Objects : GetPrivateData(slot, object)

SpecPrivateData == InitPrivateData /\ [][NextPrivateData]_vars

(***************************************************************************)
(* The deferred-rendering frame system                                     *)
(*                                                                         *)
(* A call that panics (an unwrap of None or of an Err, an overflowing      *)
(* addition in a build that checks overflow) is a result with panic TRUE.  *)
(* `made` lists the builder and future calls that were made successfully.  *)
(* Floating-point arguments (colours, matrices, vectors) are left out.     *)
(***************************************************************************)

\* ImageView::new_default(Image::new(allocator, ImageCreateInfo { .. }, ..)):
\* a new image, told apart from every other image by `id`.
ImageView(id, format, extent, usage) ==
    [id |-> id, format |-> format, extent |-> extent, usage |-> usage]

\* FrameSystem::new: the three temporary images of 1 by 1 pixel.
\* memory_allocator counts the images allocated so far.
FrameSystem_new ==
    [diffuse_buffer |->
        ImageView(1, "A2B10G10R10_UNORM_PACK32", << 1, 1, 1 >>,
                  {"COLOR_ATTACHMENT", "TRANSIENT_ATTACHMENT", "INPUT_ATTACHMENT"}),
     normals_buffer |->
        ImageView(2, "R16G16B16A16_SFLOAT", << 1, 1, 1 >>,
                  {"TRANSIENT_ATTACHMENT", "INPUT_ATTACHMENT"}),
     depth_buffer |->
        ImageView(3, "D16_UNORM", << 1, 1, 1 >>,
                  {"TRANSIENT_ATTACHMENT", "INPUT_ATTACHMENT"}),
     memory_allocator |-> 3]

\* An entry of `made`: a call on the command buffer builder or the future.
\* `kind` names the secondary command buffer of an execute_commands call.
Call(call, kind) == [call |-> call, kind |-> kind]

\* FrameSystem::frame: the three images are recreated if the extent of the
\* diffuse image differs from that of the final image; then the
\* framebuffer and the builder are created and begin_render_pass is
\* recorded.  With vk_ok FALSE one of the unwrapped library calls fails.
FrameSystem_frame(self, extent, vk_ok) ==
    LET n == self.memory_allocator
        recreated ==
            IF self.diffuse_buffer.extent # extent
            THEN [diffuse_buffer |->
                    ImageView(n + 1, "A2B10G10R10_UNORM_PACK32", extent,
                              {"COLOR_ATTACHMENT", "TRANSIENT_ATTACHMENT", "INPUT_ATTACHMENT"}),
                  normals_buffer |->
                    ImageView(n + 2, "R16G16B16A16_SFLOAT", extent,
                              {"COLOR_ATTACHMENT", "TRANSIENT_ATTACHMENT", "INPUT_ATTACHMENT"}),
                  depth_buffer |->
                    ImageView(n + 3, "D16_UNORM", extent,
                              {"DEPTH_STENCIL_ATTACHMENT", "TRANSIENT_ATTACHMENT",
                               "INPUT_ATTACHMENT"}),
                  memory_allocator |-> n + 3]
            ELSE self
        framebuffer ==
            [attachments |-> << "final_image_view", recreated.diffuse_buffer.id,
                                recreated.normals_buffer.id, recreated.depth_buffer.id >>,
             extent |-> extent]
    IN IF ~vk_ok
       THEN [panic |-> TRUE, system |-> self, frame |-> None, made |-> << >>]
       ELSE [panic |-> FALSE,
             system |-> recreated,
             frame |-> Some([before_main_cb_future |-> Some("before_future"),
                             framebuffer |-> framebuffer,
                             num_pass |-> 0,
                             command_buffer_builder |->
                                Some(<< Call("begin_render_pass", "") >>)]),
             made |-> << Call("begin_render_pass", "") >>]

\* Faulty variant of current_pass: the counter is returned after the
\* increment.
current_pass_after_increment(num_pass, checks) ==
    IF num_pass = 255 /\ checks
    THEN [panic |-> TRUE, current_pass |-> num_pass, num_pass |-> num_pass]
    ELSE [panic |-> FALSE, current_pass |-> (num_pass + 1) % 256,
          num_pass |-> (num_pass + 1) % 256]

\* { let current_pass = self.num_pass; self.num_pass += 1; current_pass }
\* on a u8: at 255 the addition panics in a build that checks overflow and
\* wraps to 0 in one that does not.
current_pass(num_pass, checks) ==
    IF num_pass = 255 /\ checks
    THEN [panic |-> TRUE, current_pass |-> num_pass, num_pass |-> num_pass]
    ELSE [panic |-> FALSE, current_pass |-> num_pass, num_pass |-> (num_pass + 1) % 256]

\* Frame::next_pass.  vk_ok is the number of unwrapped library calls that
\* succeed before one fails (3: none fails).
Frame_next_pass(self, checks, vk_ok) ==
    LET pass == current_pass(self.num_pass, checks)
        counted == [self EXCEPT !.num_pass = pass.num_pass]
        builder == self.command_buffer_builder
        Panic(made) ==
            [panic |-> TRUE, frame |-> counted, result |-> None, made |-> made]
        Return(after, result, made) ==
            [panic |-> FALSE, frame |-> after, result |-> result, made |-> made]
    IN IF pass.panic THEN [panic |-> TRUE, frame |-> self, result |-> None, made |-> << >>]
       ELSE CASE pass.current_pass = 0 ->
                    Return(counted, Some("Deferred"), << >>)
              [] pass.current_pass = 1 ->
                    IF ~IsSome(builder) \/ vk_ok < 1 THEN Panic(<< >>)
                    ELSE Return([counted EXCEPT !.command_buffer_builder =
                                    Some(Append(Unwrap(builder), Call("next_subpass", "")))],
                                Some("Lighting"),
                                << Call("next_subpass", "") >>)
              [] pass.current_pass = 2 ->
                    IF ~IsSome(builder) \/ vk_ok < 1 THEN Panic(<< >>)
                    ELSE IF vk_ok < 2
                    THEN [Panic(<< Call("end_render_pass", "") >>)
                            EXCEPT !.frame.command_buffer_builder = None]
                    ELSE IF ~IsSome(self.before_main_cb_future) \/ vk_ok < 3
                    THEN [Panic(<< Call("end_render_pass", ""), Call("build", "") >>)
                            EXCEPT !.frame.command_buffer_builder = None,
                                   !.frame.before_main_cb_future = None]
                    ELSE Return([counted EXCEPT !.command_buffer_builder = None,
                                                !.before_main_cb_future = None],
                                Some("Finished"),
                                << Call("end_render_pass", ""), Call("build", ""),
                                   Call("then_execute", "") >>)
              [] OTHER -> Return(counted, None, << >>)

\* Faulty variant of execute_commands: a builder that was taken is replaced
\* by a new one.
execute_commands_or_default(self, kind, vk_ok) ==
    IF ~vk_ok
    THEN [panic |-> TRUE, frame |-> self, made |-> << >>]
    ELSE [panic |-> FALSE,
          frame |-> [self EXCEPT !.command_buffer_builder =
                        Some(Append(IF IsSome(@) THEN Unwrap(@) ELSE << >>,
                                    Call("execute_commands", kind)))],
          made |-> << Call("execute_commands", kind) >>]

\* self.frame.command_buffer_builder.as_mut().unwrap()
\*     .execute_commands(command_buffer).unwrap()
execute_commands(self, kind, vk_ok) ==
    IF ~IsSome(self.command_buffer_builder) \/ ~vk_ok
    THEN [panic |-> TRUE, frame |-> self, made |-> << >>]
    ELSE [panic |-> FALSE,
          frame |-> [self EXCEPT !.command_buffer_builder =
                        Some(Append(Unwrap(@), Call("execute_commands", kind)))],
          made |-> << Call("execute_commands", kind) >>]

\* DrawPass::execute, with a secondary command buffer that draws.
DrawPass_execute(self, vk_ok) == execute_commands(self, "draw", vk_ok)

\* LightingPass::ambient_light: the command buffer drawn by the ambient
\* lighting system from the diffuse image.
ambient_light(self, vk_ok) == execute_commands(self, "ambient_light", vk_ok)

\* LightingPass::directional_light
directional_light(self, vk_ok) == execute_commands(self, "directional_light", vk_ok)

\* LightingPass::point_light
point_light(self, vk_ok) == execute_commands(self, "point_light", vk_ok)

(***************************************************************************)
(* Frame behaviours: a FrameSystem as new() returns it, up to MaxFrames    *)
(* frame() calls with final images of the extents below, each Frame        *)
(* dropped before the next is started, up to MaxCalls next_pass calls on   *)
(* a Frame and up to MaxCommands secondary command buffers in a Frame.     *)
(* The Pass a next_pass call returned is usable until the next call.       *)
(***************************************************************************)

MaxFrames == 2
MaxCalls == 258
MaxCommands == 2

Extents == {<< 1, 1, 1 >>, << 1, 2, 1 >>}

InitFrame ==
    /\ system = FrameSystem_new
    /\ frame = None
    /\ returned = << >>
    /\ log = << >>
    /\ panicked = FALSE
    /\ overflow_checks \in BOOLEAN
    /\ frames = 0
    /\ NoSpecialize /\ NoMerge /\ NoMatches /\ NoLookup /\ NoLifetime /\ NoConcurrent /\ NoCreation /\ NoPrivateData

\* let mut frame = system.frame(before_future, final_image_view, matrix)
StartFrame(extent, vk_ok) ==
    /\ ~panicked /\ frame = None /\ frames < MaxFrames
    /\ LET out == FrameSystem_frame(system, extent, vk_ok)
       IN /\ system' = out.system
          /\ frame' = out.frame
          /\ log' = out.made
          /\ panicked' = out.panic
    /\ returned' = << >>
    /\ frames' = frames + 1
    /\ UNCHANGED << overflow_checks, specializeVars, mergeVars, matchesVars, lookupVars,
                    lifetimeVars, concurrentVars, creationVars, privateDataVars >>

\* frame.next_pass()
NextPass(vk_ok) ==
    /\ ~panicked /\ IsSome(frame) /\ Len(returned) < MaxCalls
    /\ LET out == Frame_next_pass(Unwrap(frame), overflow_checks, vk_ok)
       IN /\ frame' = Some(out.frame)
          /\ log' = log \o out.made
          /\ panicked' = out.panic
          /\ returned' = IF out.panic THEN returned ELSE Append(returned, out.result)
    /\ UNCHANGED << system, overflow_checks, frames, specializeVars, mergeVars, matchesVars,
                    lookupVars, lifetimeVars, concurrentVars, creationVars, privateDataVars >>

\* The Pass the user holds: what the last next_pass call returned.
Holds(pass) == returned # << >> /\ returned[Len(returned)] = Some(pass)

\* The secondary command buffers executed in the Frame so far.
Commands == Cardinality({i \in 1..Len(log) : log[i].call = "execute_commands"})

\* The outcome `out` of a call on the Pass the user holds.
Executed(out) ==
    /\ frame' = Some(out.frame)
    /\ log' = log \o out.made
    /\ panicked' = out.panic
    /\ UNCHANGED << system, returned, overflow_checks, frames, specializeVars, mergeVars,
                    matchesVars, lookupVars, lifetimeVars, concurrentVars, creationVars,
                    privateDataVars >>

\* draw_pass.execute(command_buffer), on a Pass::Deferred
Execute(vk_ok) ==
    /\ ~panicked /\ IsSome(frame) /\ Holds("Deferred") /\ Commands < MaxCommands
    /\ Executed(DrawPass_execute(Unwrap(frame), vk_ok))

\* lighting.ambient_light(..), directional_light(..) or point_light(..), on
\* a Pass::Lighting
Light(light, vk_ok) ==
    /\ ~panicked /\ IsSome(frame) /\ Holds("Lighting") /\ Commands < MaxCommands
    /\ Executed(CASE light = "ambient_light" -> ambient_light(Unwrap(frame), vk_ok)
                  [] light = "directional_light" -> directional_light(Unwrap(frame), vk_ok)
                  [] light = "point_light" -> point_light(Unwrap(frame), vk_ok))

\* The Frame goes out of scope and its borrow of the FrameSystem ends.
DropFrame ==
    /\ ~panicked /\ IsSome(frame)
    /\ frame' = None
    /\ returned' = << >>
    /\ log' = << >>
    /\ UNCHANGED << system, panicked, overflow_checks, frames, specializeVars, mergeVars,
                    matchesVars, lookupVars, lifetimeVars, concurrentVars, creationVars,
                    privateDataVars >>

NextFrame ==
    \/ \E extent \in Extents, vk_ok \in BOOLEAN : StartFrame(extent, vk_ok)
    \/ \E vk_ok \in 0..3 : NextPass(vk_ok)
    \/ \E vk_ok \in BOOLEAN : Execute(vk_ok)
    \/ \E light \in {"ambient_light", "directional_light", "point_light"}, vk_ok \in BOOLEAN :
            Light(light, vk_ok)
    \/ DropFrame

SpecFrame == InitFrame /\ [][NextFrame]_vars

(***************************************************************************)
(* Properties of specialization                                            *)
(***************************************************************************)

\* The constant_ids of `specialization_info` that the base module defines
\* with another variant.
Mismatched(base_module, specialization_info) ==
    {id \in (DOMAIN specialization_info) \cap (DOMAIN base_module.specialization_constants) :
        specialization_info[id].variant # base_module.specialization_constants[id].variant}

\* C1: a specialize call returns an error if and only if some constant_id is
\* both in specialization_info and in the base module's
\* specialization_constants with a different variant (equal byte size does
\* not make two variants equal, and a constant_id the base module does not
\* define never causes an error); the error names such a constant_id.
C1_ErrorIffVariantMismatch ==
    spec_result.status # "none" =>
        /\ spec_result.status = "Err" <=> Mismatched(base, spec_result.info) # {}
        /\ spec_result.status = "Err" =>
                Unwrap(spec_result.constant_id) \in Mismatched(base, spec_result.info)

\* A call rejected for an override of the default's byte size but of another
\* variant, while an override of an undefined constant_id is also given.
C1_Witness ==
    /\ spec_result.status = "Err"
    /\ 9 \in DOMAIN spec_result.info
    /\ LET id == Unwrap(spec_result.constant_id)
       IN SizeOfVariant(spec_result.info[id].variant)
            = SizeOfVariant(base.specialization_constants[id].variant)

\* C2: no specialize call, successful or rejected, changes the base module
\* (its graph and its specialization_constants); the table stays the one
\* reflected from the graph, and specializing the base module again with the
\* overrides of an earlier call gives the module that call returned.
C2_BaseModuleUnchanged ==
    /\ [][base' = base]_vars
    /\ [](/\ base.specialization_constants = reflect_specialization_constants(base.spirv)
          /\ IsSome(module) =>
                \A out \in specialize(base, Unwrap(module).specialization_info) :
                    out.result = SpecOk /\ out.module = module)

\* A rejected call that follows a successful one with effective overrides.
C2_Witness ==
    /\ spec_result.status = "Err"
    /\ IsSome(module)
    /\ (DOMAIN Unwrap(module).specialization_info)
            \cap (DOMAIN base.specialization_constants) # {}

\* The overrides name no constant_id the base module defines.
NoEffectiveOverride(base_module, specialization_info) ==
    (DOMAIN specialization_info) \cap (DOMAIN base_module.specialization_constants) = {}

\* C3 as stated: with no effective override the specialized module holds no
\* derived graph.
C3_Original ==
    IsSome(module) /\ NoEffectiveOverride(base, Unwrap(module).specialization_info)
        => Unwrap(module).spirv = None

\* C3 as amended: the specialized module holds no derived graph exactly when
\* the base module defines no specialization constant; a base module with a
\* specialization constant always gets a derived graph, whatever the
\* overrides.
C3_DerivedGraphIffBaseHasConstants ==
    IsSome(module) =>
        (Unwrap(module).spirv = None <=> DOMAIN base.specialization_constants = {})

\* An empty specialization_info on a base module with constants: a derived
\* graph is held.
C3_Witness ==
    /\ IsSome(module)
    /\ DOMAIN Unwrap(module).specialization_info = {}
    /\ DOMAIN base.specialization_constants # {}
    /\ IsSome(Unwrap(module).spirv)

\* Every override is for a constant the base module defines and equals its
\* default (the empty map included).
MatchesDefaults(base_module, specialization_info) ==
    /\ DOMAIN specialization_info \subseteq DOMAIN base_module.specialization_constants
    /\ \A id \in DOMAIN specialization_info :
          specialization_info[id] = base_module.specialization_constants[id]

\* C4: a module specialized with an empty override map, or with overrides
\* equal to the defaults, has the entry-point infos that reflecting the base
\* module's graph gives.
C4_NoOpSpecialization ==
    IsSome(module) /\ MatchesDefaults(base, Unwrap(module).specialization_info)
        => Unwrap(module).entry_point_infos = reflect_entry_points(base.spirv)

\* A module specialized with exactly the defaults of a base module that has
\* two constants.
C4_Witness ==
    /\ IsSome(module)
    /\ Unwrap(module).specialization_info = base.specialization_constants
    /\ Cardinality(DOMAIN base.specialization_constants) = 2


(***************************************************************************)
(* Properties of DescriptorBindingRequirements::merge                      *)
(***************************************************************************)

Range(vec) == {vec[i] : i \in DOMAIN vec}

BothSomeAndDiffer(a, b) == IsSome(a) /\ IsSome(b) /\ Unwrap(a) # Unwrap(b)

\* The conflict conditions in the order of the claim, each with its problem.
Conflicts(a, b) ==
    << << Range(a.descriptor_types) \cap Range(b.descriptor_types) = {}, TypesDoNotOverlap >>,
       << BothSomeAndDiffer(a.image_format, b.image_format), DifferentFormats >>,
       << BothSomeAndDiffer(a.image_scalar_type, b.image_scalar_type), DifferentScalarTypes >>,
       << BothSomeAndDiffer(a.image_view_type, b.image_view_type), DifferentViewTypes >>,
       << a.image_multisampled # b.image_multisampled, MultisamplingDiffers >> >>

Holding(a, b) == {i \in DOMAIN Conflicts(a, b) : Conflicts(a, b)[i][1]}

\* C5: merge returns an error if and only if one of the five conflict
\* conditions holds, and the problem reported is that of the first condition,
\* in the order types, format, scalar type, view type, multisampling.
C5_ErrorIffConflict ==
    IsSome(last) =>
        LET l == Unwrap(last)
            holding == Holding(l.self_before, l.other_before)
        IN /\ l.result # MergeOk <=> holding # {}
           /\ holding # {} =>
                \E i \in holding :
                    /\ \A j \in holding : i <= j
                    /\ l.result = Conflicts(l.self_before, l.other_before)[i][2]

\* A merge rejected for its formats while the scalar types conflict too.
C5_Witness ==
    /\ IsSome(last)
    /\ Unwrap(last).result = DifferentFormats
    /\ Cardinality(Holding(Unwrap(last).self_before, Unwrap(last).other_before)) >= 2

\* C6: when merge returns an error every field of self is what it was before
\* the call, and other is not modified by any call.
C6_ErrorLeavesSelfUnchanged ==
    IsSome(last) =>
        LET l == Unwrap(last)
        IN /\ l.result # MergeOk => reqs[l.self] = l.self_before
           /\ reqs[l.other] = l.other_before

\* A rejected merge whose merge part would have changed stages, types and
\* the per-index map of self.
C6_Witness ==
    /\ IsSome(last)
    /\ Unwrap(last).result # MergeOk
    /\ LET l == Unwrap(last)
       IN /\ ~(l.other_before.stages \subseteq l.self_before.stages)
          /\ ~(Range(l.self_before.descriptor_types)
                    \subseteq Range(l.other_before.descriptor_types))
          /\ ~(DOMAIN l.other_before.descriptors \subseteq DOMAIN l.self_before.descriptors)

\* The field a merge gives for an optional image property.
WhicheverSpecifies(a, b, merged) ==
    /\ IsSome(a) => merged = a
    /\ IsSome(b) => merged = b
    /\ a = None /\ b = None => merged = None

\* C7: after a successful merge the descriptor types are the intersection of
\* the two type sets, the stages the union, each optional image property the
\* value of whichever side specifies it, image_multisampled is unchanged, and
\* descriptor_count is the larger of two numbers and the concrete number when
\* only one side has one.
C7_MergeResult ==
    IsSome(last) /\ Unwrap(last).result = MergeOk =>
        LET l == Unwrap(last)
            a == l.self_before
            b == l.other_before
            m == reqs[l.self]
        IN /\ Range(m.descriptor_types) = Range(a.descriptor_types) \cap Range(b.descriptor_types)
           /\ m.stages = a.stages \cup b.stages
           /\ WhicheverSpecifies(a.image_format, b.image_format, m.image_format)
           /\ WhicheverSpecifies(a.image_scalar_type, b.image_scalar_type, m.image_scalar_type)
           /\ WhicheverSpecifies(a.image_view_type, b.image_view_type, m.image_view_type)
           /\ m.image_multisampled = a.image_multisampled
           /\ IsSome(a.descriptor_count) /\ IsSome(b.descriptor_count) =>
                /\ m.descriptor_count \in {a.descriptor_count, b.descriptor_count}
                /\ Unwrap(m.descriptor_count) >= Unwrap(a.descriptor_count)
                /\ Unwrap(m.descriptor_count) >= Unwrap(b.descriptor_count)
           /\ a.descriptor_count = None => m.descriptor_count = b.descriptor_count
           /\ b.descriptor_count = None => m.descriptor_count = a.descriptor_count

\* A Vertex-stage uniform-buffer requirement merged with a Fragment-stage
\* one: the stages are {Vertex, Fragment}.
C7_Witness ==
    /\ IsSome(last)
    /\ Unwrap(last).result = MergeOk
    /\ Unwrap(last).self_before.stages = {"Vertex"}
    /\ Unwrap(last).other_before.stages = {"Fragment"}
    /\ contains(reqs[Unwrap(last).self].descriptor_types, "UniformBuffer")
    /\ reqs[Unwrap(last).self].stages = {"Vertex", "Fragment"}

\* A layout that declares n descriptors meets a required count: at least
\* Some(k), and anything for the runtime-sized None.
MeetsCount(n, descriptor_count) ==
    IsSome(descriptor_count) => n >= Unwrap(descriptor_count)

\* C8 as stated: the merged descriptor_count is None if either input is None,
\* otherwise the larger number.
C8_Original ==
    IsSome(last) /\ Unwrap(last).result = MergeOk =>
        LET l == Unwrap(last)
            a == l.self_before.descriptor_count
            b == l.other_before.descriptor_count
        IN reqs[l.self].descriptor_count =
              IF a = None \/ b = None THEN None
              ELSE IF Unwrap(a) >= Unwrap(b) THEN a ELSE b

\* C8 as amended: after a successful merge a layout meets the merged
\* descriptor_count exactly when it meets the count of both inputs, where a
\* None input asks for no minimum; so the merged count is None only if both
\* inputs are None.
C8_MergedCountMeetsBoth ==
    IsSome(last) /\ Unwrap(last).result = MergeOk =>
        LET l == Unwrap(last)
            a == l.self_before.descriptor_count
            b == l.other_before.descriptor_count
            m == reqs[l.self].descriptor_count
        IN /\ \A n \in 0 .. MaxDescriptorCount + 1 :
                MeetsCount(n, m) <=> MeetsCount(n, a) /\ MeetsCount(n, b)
           /\ m = None <=> a = None /\ b = None

\* A requirement with a count merged with a runtime-sized one, both ways.
C8_Witness ==
    /\ Len(calls) = 2
    /\ calls[1][1] = calls[2][2] /\ calls[1][2] = calls[2][1]
    /\ Unwrap(last).result = MergeOk
    /\ orig[calls[1][1]].descriptor_count = None
    /\ IsSome(orig[calls[1][2]].descriptor_count)
    /\ IsSome(reqs[calls[1][1]].descriptor_count)
    /\ IsSome(reqs[calls[1][2]].descriptor_count)

\* Equality field by field, descriptor types as sets and the per-index maps
\* key by key.
SameRequirements(x, y) ==
    /\ Range(x.descriptor_types) = Range(y.descriptor_types)
    /\ x.descriptor_count = y.descriptor_count
    /\ x.image_format = y.image_format
    /\ x.image_multisampled = y.image_multisampled
    /\ x.image_scalar_type = y.image_scalar_type
    /\ x.image_view_type = y.image_view_type
    /\ x.stages = y.stages
    /\ DOMAIN x.descriptors = DOMAIN y.descriptors
    /\ \A index \in DOMAIN x.descriptors : x.descriptors[index] = y.descriptors[index]

\* No merge of one of the three objects, as constructed, into another fails.
NoPairwiseConflict ==
    \A i \in DOMAIN orig, j \in DOMAIN orig :
        i # j => DescriptorBindingRequirements_merge(orig[i], orig[j]).result = MergeOk

\* B merged into A and then C into A.
LeftOrderDone == calls = << << 1, 2 >>, << 1, 3 >> >>

\* C merged into B and then B into A, on the objects as constructed.
RightOrder ==
    LET bc == DescriptorBindingRequirements_merge(orig[2], orig[3])
    IN DescriptorBindingRequirements_merge(orig[1], bc.self)

\* C9 as stated: without pairwise conflicts, A after B and then C were merged
\* into it is the same requirement as A after C was merged into B and B into
\* A.
C9_Original ==
    LeftOrderDone /\ NoPairwiseConflict => SameRequirements(reqs[1], RightOrder.self)

\* C9 as amended: without pairwise conflicts the two orders end alike: either
\* the last merge of both fails because the three type sets share no type, or
\* both succeed and A is the same requirement field by field.
C9_Associative ==
    LeftOrderDone /\ NoPairwiseConflict =>
        LET l == Unwrap(last)
        IN /\ l.result = RightOrder.result
           /\ l.result # MergeOk =>
                /\ l.result = TypesDoNotOverlap
                /\ Range(orig[1].descriptor_types) \cap Range(orig[2].descriptor_types)
                        \cap Range(orig[3].descriptor_types) = {}
           /\ l.result = MergeOk => SameRequirements(reqs[1], RightOrder.self)

\* Three different objects merged without conflict, each merge changing A.
C9_Witness ==
    /\ LeftOrderDone
    /\ NoPairwiseConflict
    /\ Unwrap(last).result = MergeOk
    /\ Cardinality({orig[1], orig[2], orig[3]}) = 3
    /\ Unwrap(last).self_before # orig[1]
    /\ reqs[1] # Unwrap(last).self_before

\* C10: B merged into A fails exactly when A merged into B fails, and when
\* both succeed the two results are the same requirement field by field.
C10_Commutative ==
    calls = << << 1, 2 >> >> =>
        LET l == Unwrap(last)
            reverse == DescriptorBindingRequirements_merge(orig[2], orig[1])
        IN /\ l.result # MergeOk <=> reverse.result # MergeOk
           /\ l.result = MergeOk => SameRequirements(reqs[1], reverse.self)

\* A successful merge of two different objects whose results differ as
\* vectors of descriptor types and agree as sets.
C10_Witness ==
    /\ calls = << << 1, 2 >> >>
    /\ Unwrap(last).result = MergeOk
    /\ orig[1] # orig[2]
    /\ reqs[1].descriptor_types
            # DescriptorBindingRequirements_merge(orig[2], orig[1]).self.descriptor_types


\* What DescriptorRequirements::merge leaves in self, field by field.
OrOfBoth(a, b, m) ==
    /\ m.memory_read = a.memory_read \cup b.memory_read
    /\ m.memory_write = a.memory_write \cup b.memory_write
    /\ m.sampler_compare = (a.sampler_compare \/ b.sampler_compare)
    /\ m.sampler_no_unnormalized_coordinates =
            (a.sampler_no_unnormalized_coordinates \/ b.sampler_no_unnormalized_coordinates)
    /\ m.sampler_no_ycbcr_conversion =
            (a.sampler_no_ycbcr_conversion \/ b.sampler_no_ycbcr_conversion)
    /\ m.storage_image_atomic = (a.storage_image_atomic \/ b.storage_image_atomic)
    /\ m.sampler_with_images = a.sampler_with_images \cup b.sampler_with_images

\* C11: DescriptorRequirements::merge sets the two stage sets and the four
\* flags to the OR of the inputs and sampler_with_images to their union; after
\* a successful DescriptorBindingRequirements::merge the per-index map has the
\* union of both key sets (the key None included), an index only in other is
\* copied, an index only in self is kept, and an index in both holds the
\* DescriptorRequirements merge of the two.
C11_PerIndexMapMerged ==
    IsSome(last) /\ Unwrap(last).result = MergeOk =>
        LET l == Unwrap(last)
            a == l.self_before.descriptors
            b == l.other_before.descriptors
            m == reqs[l.self].descriptors
        IN /\ DOMAIN m = (DOMAIN a) \cup (DOMAIN b)
           /\ \A index \in (DOMAIN b) \ (DOMAIN a) : m[index] = b[index]
           /\ \A index \in (DOMAIN a) \ (DOMAIN b) : m[index] = a[index]
           /\ \A index \in (DOMAIN a) \cap (DOMAIN b) : OrOfBoth(a[index], b[index], m[index])

\* A successful merge where the key None is on both sides with different
\* requirements and the key Some(0) only in other.
C11_Witness ==
    /\ IsSome(last)
    /\ Unwrap(last).result = MergeOk
    /\ LET a == Unwrap(last).self_before.descriptors
           b == Unwrap(last).other_before.descriptors
       IN /\ None \in (DOMAIN a) \cap (DOMAIN b)
          /\ a[None].memory_read # b[None].memory_read
          /\ a[None].storage_image_atomic # b[None].storage_image_atomic
          /\ Some(0) \in (DOMAIN b) \ (DOMAIN a)
          /\ b[Some(0)].sampler_with_images # {}

(***************************************************************************)
(* Properties of ShaderInterface::matches                                  *)
(***************************************************************************)

No64Bit(interface) == \A i \in DOMAIN interface : ~interface[i].ty.is_64bit

\* The locations an element takes.
Slots(e) == {loc \in e.location..(e.location + e.ty.num_elements) :
                loc < e.location + e.ty.num_elements}

\* The downstream elements that cover a location.
Covering(other, loc) ==
    {j \in DOMAIN other : loc \in Slots(other[j])}

\* Some downstream element covers loc, and the first that does has a's type.
SlotMatches(a, other, loc) ==
    /\ Covering(other, loc) # {}
    /\ \E j \in Covering(other, loc) :
          /\ \A k \in Covering(other, loc) : j <= k
          /\ other[j].ty = a.ty

\* The << element, location >> pairs of self that do not match.
Offending(self, other) ==
    {p \in (DOMAIN self) \X (0..(MaxLocation + 2)) :
        p[2] \in Slots(self[p[1]]) /\ ~SlotMatches(self[p[1]], other, p[2])}

\* p comes first in upstream iteration order.
IsFirst(p, pairs) ==
    \A q \in pairs : p[1] < q[1] \/ (p[1] = q[1] /\ p[2] <= q[2])

\* C12: for interfaces without 64-bit elements, matches returns Ok if and only
\* if both have the same number of elements and every location of every
\* upstream element is covered by a downstream element, the one found for it
\* being of the same type; a count mismatch is reported as unequal counts, and
\* otherwise the error names the first offending location in upstream order.
C12_MatchesIffCoveredWithEqualTypes ==
    IsSome(matched) /\ No64Bit(Unwrap(matched).upstream)
                    /\ No64Bit(Unwrap(matched).downstream) =>
        LET self == Unwrap(matched).upstream
            other == Unwrap(matched).downstream
            result == Unwrap(matched).result
            offending == Offending(self, other)
        IN /\ result.status = "Ok" <=> Len(self) = Len(other) /\ offending = {}
           /\ result.status \in {"Ok", "Err"}
           /\ Len(self) # Len(other) => result = NotEqualCount
           /\ Len(self) = Len(other) /\ offending # {} =>
                \E p \in offending :
                    /\ IsFirst(p, offending)
                    /\ result = IF Covering(other, p[2]) = {}
                                THEN MissingElement(p[2])
                                ELSE TypeDiffers(p[2])

\* Two upstream elements against two downstream ones, both upstream elements
\* offending, the first because the downstream array element that covers its
\* location has another type.
C12_Witness ==
    /\ IsSome(matched)
    /\ No64Bit(Unwrap(matched).upstream) /\ No64Bit(Unwrap(matched).downstream)
    /\ Len(Unwrap(matched).upstream) = 2
    /\ Len(Unwrap(matched).downstream) = 2
    /\ Cardinality({p[1] : p \in Offending(Unwrap(matched).upstream,
                                            Unwrap(matched).downstream)}) = 2
    /\ Unwrap(matched).upstream[1].location = 1
    /\ Unwrap(matched).result = TypeDiffers(1)
    /\ \E j \in Covering(Unwrap(matched).downstream, 1) :
            Unwrap(matched).downstream[j].location = 0

\* C13: the result of matches depends only on the location and the type of
\* each element: with the name, index or component of elements of either
\* interface replaced, matches gives what it gave before.
C13_LabelsDoNotMatter ==
    IsSome(matched) =>
        ShaderInterface_matches(upstream, downstream) = Unwrap(matched).result

\* Both interfaces relabelled after a call that found them matching.
C13_Witness ==
    /\ IsSome(matched)
    /\ Unwrap(matched).result = MatchesOk
    /\ Len(upstream) = 2
    /\ upstream # Unwrap(matched).upstream
    /\ downstream # Unwrap(matched).downstream
    /\ \E i \in DOMAIN upstream : upstream[i].component = 1
    /\ \E i \in DOMAIN downstream : IsSome(downstream[i].name)

(***************************************************************************)
(* Properties of entry-point lookup                                        *)
(***************************************************************************)

\* The filter of each lookup method, on one EntryPointInfo.
Satisfies(call, info) ==
    CASE call.method = "entry_point" -> info.name = Unwrap(call.name)
      [] call.method = "entry_point_with_execution" ->
            info.name = Unwrap(call.name) /\ info.execution_model = Unwrap(call.execution)
      [] call.method = "single_entry_point" -> TRUE
      [] call.method = "single_entry_point_with_execution" ->
            info.execution_model = Unwrap(call.execution)

\* The indices of the cached infos that satisfy the filter of the call.
Satisfying(self, call) ==
    {x \in DOMAIN self.entry_point_infos : Satisfies(call, self.entry_point_infos[x][2])}

\* C14: each lookup on a SpecializedShaderModule returns an EntryPoint if and
\* only if exactly one cached entry-point info satisfies its filter; no match
\* and two or more matches both give None; the info of the returned
\* EntryPoint is the matching one and its id the id stored with that info.
C14_EntryPointIffExactlyOne ==
    IsSome(found) /\ Unwrap(found).on = "SpecializedShaderModule" =>
        LET self == Unwrap(module)
            satisfying == Satisfying(self, Unwrap(found).call)
            result == Unwrap(found).result
        IN /\ IsSome(result) <=> Cardinality(satisfying) = 1
           /\ IsSome(result) =>
                \A x \in satisfying :
                    /\ Unwrap(result).module = self
                    /\ EntryPoint_info(Unwrap(result)) = self.entry_point_infos[x][2]
                    /\ Unwrap(result).id = self.entry_point_infos[x][1]

\* A lookup by name alone in a module with two entry points called main finds
\* nothing.
C14_Witness ==
    /\ IsSome(found)
    /\ Unwrap(found).on = "SpecializedShaderModule"
    /\ Unwrap(found).call.method = "entry_point"
    /\ Cardinality(Satisfying(Unwrap(module), Unwrap(found).call)) = 2
    /\ Unwrap(found).result = None

\* The method of the same name on a specialized module.
SameNamed(self, call) ==
    CASE call.method = "entry_point" ->
            SpecializedShaderModule_entry_point(self, Unwrap(call.name))
      [] call.method = "entry_point_with_execution" ->
            SpecializedShaderModule_entry_point_with_execution(
                self, Unwrap(call.name), Unwrap(call.execution))
      [] call.method = "single_entry_point" ->
            SpecializedShaderModule_single_entry_point(self)
      [] call.method = "single_entry_point_with_execution" ->
            SpecializedShaderModule_single_entry_point_with_execution(
                self, Unwrap(call.execution))

\* C15: each of the four lookups of a base module gives what specialize with
\* an empty specialization info, which never fails, followed by the method of
\* the same name on the specialized module gives.
C15_BaseLookupIsLookupAfterEmptySpecialize ==
    IsSome(found) /\ Unwrap(found).on = "ShaderModule" =>
        \A out \in specialize(base, HashMap_default) :
            /\ out.result = SpecOk
            /\ IsSome(out.module)
            /\ Unwrap(found).result = SameNamed(Unwrap(out.module), Unwrap(found).call)

\* The Fragment entry point called main of a base module that has two entry
\* points of that name and specialization constants of its own.
C15_Witness ==
    /\ IsSome(found)
    /\ Unwrap(found).on = "ShaderModule"
    /\ Unwrap(found).call.method = "entry_point_with_execution"
    /\ Unwrap(found).call.execution = Some("Fragment")
    /\ IsSome(Unwrap(found).result)
    /\ Unwrap(Unwrap(found).result).id = 2
    /\ Cardinality(DOMAIN base.specialization_constants) = 2

(***************************************************************************)
(* Properties of ownership                                                 *)
(***************************************************************************)

HoldsNothing ==
    /\ held.base = 0
    /\ \A id \in SpecializedIds : held.specialized[id] = 0 /\ held.entry_points[id] = 0

\* C16: the shader-module handle is destroyed exactly once, and never while
\* a specialized module derived from the base module or an EntryPoint of such
\* a module exists: an EntryPoint keeps its specialized module alive, a
\* specialized module keeps the base module alive, and the handle is
\* destroyed when the last of all of them is dropped.
C16_DestroyedOnceAfterAllDropped ==
    /\ arcs.destroy_calls <= 1
    /\ arcs.destroy_calls = 1 <=> HoldsNothing
    /\ arcs.destroy_calls = 1 => \A id \in SpecializedIds : arcs.specialized[id] = 0
    /\ \A id \in SpecializedIds :
          /\ held.specialized[id] + held.entry_points[id] > 0 => arcs.specialized[id] > 0
          /\ arcs.specialized[id] > 0 => arcs.base > 0
    /\ held.base > 0 => arcs.base > 0

\* Only an EntryPoint obtained from the base module is left: the base Arc
\* and every specialized Arc of the program have been dropped, and the
\* handle is not destroyed.
C16_Witness ==
    /\ held.base = 0
    /\ \A id \in SpecializedIds : held.specialized[id] = 0
    /\ \E id \in SpecializedIds :
          /\ held.entry_points[id] = 1
          /\ arcs.specialized[id] = 1
    /\ arcs.base = 1
    /\ arcs.destroy_calls = 0

(***************************************************************************)
(* Properties of concurrent specialization                                 *)
(***************************************************************************)

\* C17: two threads that specialize the same base module concurrently with
\* different overrides do not interfere: in every interleaving each call
\* returns what it returns when run alone (the same error, or the same
\* specialization_info, derived graph and entry-point infos), and the base
\* module is unchanged.
C17_ThreadsDoNotInterfere ==
    /\ base = base_at_start
    /\ \A t \in Threads :
          threads[t].pc = "done" =>
              \E alone \in specialize(base_at_start, threads[t].specialization_info) :
                  /\ Unwrap(threads[t].result).result = alone.result
                  /\ Unwrap(threads[t].result).module = alone.module

\* Both calls have returned a module with a derived graph; the two graphs
\* differ from each other and the first differs from the base module's.
C17_Witness ==
    /\ \A t \in Threads :
          /\ threads[t].pc = "done"
          /\ IsSome(Unwrap(threads[t].result).module)
          /\ IsSome(Unwrap(Unwrap(threads[t].result).module).spirv)
    /\ Unwrap(Unwrap(threads[1].result).module).spirv
            # Unwrap(Unwrap(threads[2].result).module).spirv
    /\ Unwrap(Unwrap(Unwrap(threads[1].result).module).spirv) # base.spirv

(***************************************************************************)
(* Properties of ShaderModule::new                                         *)
(***************************************************************************)

\* The versions of the claim's table, major and minor only.
TableAccepts(major, minor, device) ==
    LET api == device.api_version
        AtLeast(m) == api.major > 1 \/ (api.major = 1 /\ api.minor >= m)
    IN /\ major = 1
       /\ CASE minor = 0 -> TRUE
            [] minor \in {1, 2, 3} -> AtLeast(1)
            [] minor = 4 -> AtLeast(2) \/ device.khr_spirv_1_4
            [] minor = 5 -> AtLeast(2)
            [] minor = 6 -> AtLeast(3)
            [] OTHER -> FALSE

\* The code parses but the device does not take its version, one of its
\* capabilities or one of its extensions.
EnvironmentFails(code, device) ==
    /\ code.well_formed
    /\ \/ ~TableAccepts(code.version.major, code.version.minor, device)
       \/ ~(code.capabilities \subseteq device.capabilities)
       \/ ~(code.extensions \subseteq device.extensions)

IsPrefix(s, t) == Len(s) <= Len(t) /\ \A i \in DOMAIN s : s[i] = t[i]

ParseProblem == "error while parsing: malformed"

\* C18: ShaderModule::new parses, then validates against the device, then
\* calls the driver; when parsing fails, or parsing succeeds and validation
\* fails, it returns a validation error, create_shader_module is never called
\* and no ShaderModule exists; the parse error and the environment errors are
\* distinct.
C18_ParseValidateCreate ==
    /\ IsPrefix(creation.steps, << "parse", "validate", "create_shader_module" >>)
    /\ creation.create_calls = (IF Len(creation.steps) = 3 THEN 1 ELSE 0)
    /\ creation.modules <= creation.create_calls
    /\ creation.pc = "returned" =>
          /\ ~creation.code.well_formed =>
                /\ creation.steps = << "parse" >>
                /\ Unwrap(creation.result).status = "ValidationError"
                /\ Unwrap(creation.result).problem = ParseProblem
                /\ creation.create_calls = 0 /\ creation.modules = 0
          /\ EnvironmentFails(creation.code, creation.device) =>
                /\ creation.steps = << "parse", "validate" >>
                /\ Unwrap(creation.result).status = "ValidationError"
                /\ Unwrap(creation.result).problem # ParseProblem
                /\ creation.create_calls = 0 /\ creation.modules = 0
          /\ creation.code.well_formed
                /\ ~EnvironmentFails(creation.code, creation.device) =>
                creation.create_calls = 1

\* A call that returned after validation rejected a capability of code whose
\* SPIR-V version the device takes.
C18_Witness ==
    /\ creation.pc = "returned"
    /\ creation.steps = << "parse", "validate" >>
    /\ TableAccepts(creation.code.version.major, creation.code.version.minor,
                    creation.device)
    /\ Unwrap(creation.result).problem = "uses the SPIR-V capability"
    /\ Unwrap(creation.result).context = "create_info.code"
    /\ creation.create_calls = 0

VersionProblems ==
    {"uses SPIR-V version", "uses SPIR-V version, which is not supported by Vulkan"}

\* C19: validate decides the SPIR-V version with the patch number ignored:
\* 1.0 is accepted on every device; 1.1, 1.2 and 1.3 iff the API version is at
\* least 1.1; 1.4 iff the API version is at least 1.2 or khr_spirv_1_4 is
\* enabled; 1.5 iff the API version is at least 1.2; 1.6 iff it is at least
\* 1.3; every other version is rejected on every device.
C19_VersionTable ==
    IsSome(creation.validated) =>
        (Unwrap(creation.validated).problem \in VersionProblems
            <=> ~TableAccepts(creation.code.version.major, creation.code.version.minor,
                              creation.device))

\* SPIR-V 1.4 with a patch number, accepted on a Vulkan 1.1 device because
\* khr_spirv_1_4 is enabled.
C19_Witness ==
    /\ IsSome(creation.validated)
    /\ Unwrap(creation.validated) = CreateOk
    /\ creation.code.version = Version(1, 4, 1)
    /\ creation.device.api_version.minor = 1
    /\ creation.device.khr_spirv_1_4

(***************************************************************************)
(* Properties of private data                                              *)
(***************************************************************************)

\* The positions of the set calls for a slot and an object that returned Ok
\* before the last get was made.
SuccessfulSets(slot, object) ==
    {i \in 1..Unwrap(got).after :
        /\ set_calls[i].slot = slot
        /\ set_calls[i].object = object
        /\ set_calls[i].result = "Ok"}

\* C20: for a slot and an object of the same device, get_private_data
\* returns 0 when set_private_data never succeeded for that object on that
\* slot, and otherwise the data of the most recent successful set for that
\* slot and object.
C20_GetReturnsLastSet ==
    IsSome(got) =>
        LET sets == SuccessfulSets(Unwrap(got).slot, Unwrap(got).object)
        IN /\ sets = {} => Unwrap(got).data = 0
           /\ sets # {} =>
                \E i \in sets :
                    /\ \A j \in sets : j <= i
                    /\ Unwrap(got).data = set_calls[i].data

\* Two successful sets of different non-zero values for one slot and
\* object, and a get that returns the second.
C20_Witness ==
    /\ IsSome(got)
    /\ Cardinality(SuccessfulSets(Unwrap(got).slot, Unwrap(got).object)) = 2
    /\ set_calls[1].data # 0
    /\ set_calls[2].data # 0
    /\ set_calls[1].data # set_calls[2].data
    /\ Unwrap(got).data = set_calls[2].data

\* C21: private data slots do not interfere: a set_private_data call on
\* slot S for object X, whatever its outcome, leaves unchanged what
\* get_private_data returns for every other slot with X and for slot S with
\* every other object (and for every other pair of slot and object).
C21_SlotsDoNotInterfere ==
    [][Len(set_calls') > Len(set_calls) =>
            LET call == set_calls'[Len(set_calls')]
            IN \A slot \in PrivateDataSlots, object \in Objects :
                    (slot.device = object.device
                        /\ << slot.handle, object.handle >> # << call.slot, call.object >>)
                    => get_private_data(private_data', slot, object)
                        = get_private_data(private_data, slot, object)]_vars

\* Object 1 was given 1 in slot 1 and then 2 in slot 2, and a later get on
\* slot 1 still returns 1.
C21_Witness ==
    /\ Len(set_calls) = 2
    /\ set_calls[1] = [slot |-> 1, object |-> 1, data |-> 1, result |-> "Ok"]
    /\ set_calls[2] = [slot |-> 2, object |-> 1, data |-> 2, result |-> "Ok"]
    /\ got = Some([slot |-> 1, object |-> 1, after |-> 2, data |-> 1])

\* C22: on a Frame returned by FrameSystem::frame, the first next_pass call
\* returns Pass::Deferred, the second Pass::Lighting, the third
\* Pass::Finished and the fourth None; no pass is skipped, repeated or
\* returned out of this order (checked for every call up to the 256th, the
\* last one before the 8-bit counter has taken every value).
C22_PassesInOrder ==
    \A k \in 1..Len(returned) :
        /\ k = 1 => returned[k] = Some("Deferred")
        /\ k = 2 => returned[k] = Some("Lighting")
        /\ k = 3 => returned[k] = Some("Finished")
        /\ (k >= 4 /\ k <= 256) => returned[k] = None

\* Four calls have returned on a Frame in which a draw and a light were
\* executed.
C22_Witness ==
    /\ Len(returned) = 4
    /\ ~panicked
    /\ returned[3] = Some("Finished")
    /\ returned[4] = None
    /\ Commands = 2

\* C23 as stated: once a Frame is past pass 2 it is finished and does
\* nothing more: every next_pass call after the third returns None, however
\* many calls follow.
C23_FinishedForEver ==
    /\ \A k \in 1..Len(returned) : k > 3 => returned[k] = None
    /\ Len(returned) >= 3 => ~panicked

\* C24 as stated: once the first frame() call has returned, none of the
\* three images is one of the temporary images that new() created, whatever
\* the extent of the final image.
C24_TemporaryImagesReplaced ==
    (frames >= 1 /\ ~panicked) =>
        {system.diffuse_buffer.id, system.normals_buffer.id, system.depth_buffer.id}
            \cap {FrameSystem_new.diffuse_buffer.id, FrameSystem_new.normals_buffer.id,
                  FrameSystem_new.depth_buffer.id} = {}

\* The place of a call in the order of a Frame's commands.
Rank(entry) ==
    CASE entry.call = "begin_render_pass" -> 1
      [] entry.call = "execute_commands" /\ entry.kind = "draw" -> 2
      [] entry.call = "next_subpass" -> 3
      [] entry.call = "execute_commands" /\ entry.kind # "draw" -> 4
      [] entry.call = "end_render_pass" -> 5
      [] entry.call = "build" -> 6
      [] entry.call = "then_execute" -> 7

\* Whether the call was made for the Frame.
Made(call) == \E i \in 1..Len(log) : log[i].call = call

\* C25: the calls made for one Frame are begin_render_pass once (in
\* frame()), then the command buffers executed through DrawPass, then
\* next_subpass once (in the second next_pass call), then the command
\* buffers of LightingPass, then end_render_pass, build and then_execute
\* once each (in the third next_pass call); nothing is recorded after build
\* and no DrawPass command buffer after next_subpass.
C25_CommandsInOrder ==
    /\ \A i \in 1..Len(log), j \in 1..Len(log) :
            i < j => /\ Rank(log[i]) <= Rank(log[j])
                     /\ Rank(log[i]) = Rank(log[j]) => Rank(log[i]) \in {2, 4}
    /\ (IsSome(frame) /\ ~panicked) =>
            /\ log[1].call = "begin_render_pass"
            /\ Made("next_subpass") <=> Len(returned) >= 2
            /\ Made("end_render_pass") <=> Len(returned) >= 3
            /\ Made("build") <=> Len(returned) >= 3
            /\ Made("then_execute") <=> Len(returned) >= 3
            /\ IsSome(Unwrap(frame).command_buffer_builder) =>
                    Unwrap(Unwrap(frame).command_buffer_builder) = log
            /\ IsSome(Unwrap(frame).command_buffer_builder) <=> ~Made("build")

\* A finished Frame in which one draw and one light were executed: the
\* seven calls in order.
C25_Witness ==
    /\ ~panicked
    /\ Len(returned) = 3
    /\ [i \in 1..Len(log) |-> Rank(log[i])] = << 1, 2, 3, 4, 5, 6, 7 >>

\* The index of the first 64-bit element of an interface that has one.
First64Bit(interface) ==
    CHOOSE i \in DOMAIN interface :
        /\ interface[i].ty.is_64bit
        /\ \A j \in DOMAIN interface : interface[j].ty.is_64bit => i <= j

\* C26: 64-bit elements are asserted against, not silently handled: with
\* equal element counts and a 64-bit element upstream, matches never returns
\* Ok; it panics in num_locations when it reaches that element, and returns
\* an error only for a location of an element that comes before it.
C26_No64BitMatch ==
    IsSome(matched) =>
        LET m == Unwrap(matched)
        IN (/\ Len(m.upstream) = Len(m.downstream)
            /\ \E i \in DOMAIN m.upstream : m.upstream[i].ty.is_64bit)
           => /\ m.result.status # "Ok"
              /\ m.result.status \in {"Panic", "Err"}
              /\ m.result.status = "Err" =>
                    /\ IsSome(m.result.location)
                    /\ \E j \in 1..(First64Bit(m.upstream) - 1) :
                            /\ Unwrap(m.result.location) >= m.upstream[j].location
                            /\ Unwrap(m.result.location)
                                < m.upstream[j].location + m.upstream[j].ty.num_elements

\* The first upstream element was matched, the 64-bit element after it made
\* the call panic, and no downstream element is 64-bit.
C26_Witness ==
    /\ IsSome(matched)
    /\ LET m == Unwrap(matched)
       IN /\ Len(m.upstream) = 2 /\ Len(m.downstream) = 2
          /\ ~m.upstream[1].ty.is_64bit
          /\ m.upstream[2].ty.is_64bit
          /\ \A i \in DOMAIN m.downstream : ~m.downstream[i].ty.is_64bit
          /\ m.result = MatchesPanic

=============================================================================
